---- MODULE Spec2Model ----
(***************************************************************************)
(* VQTools: the vqcheck job planner / dispatcher (tools/vqcheck.py with    *)
(* the backend runners of metrics/) and the aggregation engine             *)
(* (tools/aggmet.py), as state machines over an abstract file system.      *)
(***************************************************************************)
EXTENDS Integers, Sequences, FiniteSets, TLC

(***************************************************************************)
(* Bounds                                                                  *)
(***************************************************************************)
\* number of vqcheck invocations over the same disk
MaxRuns == 2

\* number of files in a metrics directory
MaxFiles == 2

\* number of aggmet invocations over the same metrics directory
MaxAggRuns == 2

\* number of reference files
MaxRefs == 3

\* number of files in a directory tree
MaxListed == 3

\* number of calls of check_cover
MaxChecks == 3

(***************************************************************************)
(* Mode registry (tools/vqcheck.py)                                        *)
(***************************************************************************)
Groups ==
  <<"ffmpeg", "cvqa", "lpips", "dover", "cover", "cvvdp", "uvq", "maxvqa",
    "pyiqa", "jpegxl", "fastvqa", "qalign", "check">>

MODES ==
  [ffmpeg  |-> <<"vmaf4k", "vmaf", "vmaf4k-full", "vmaf-full", "psnr">>,
   cvqa    |-> <<"cvqa-nr", "cvqa-nr-ms", "cvqa-fr", "cvqa-fr-ms">>,
   lpips   |-> <<"lpips-alex", "lpips-vgg">>,
   dover   |-> <<"dover">>,
   cover   |-> <<"cover">>,
   cvvdp   |-> <<"cvvdp-fhd", "cvvdp-4k">>,
   uvq     |-> <<"uvq">>,
   maxvqa  |-> <<"maxvqa">>,
   pyiqa   |-> <<"musiq", "brisque", "niqe", "clipiqa", "clipiqa+", "dists">>,
   jpegxl  |-> <<"ssimulacra2", "butteraugli">>,
   fastvqa |-> <<"fastvqa", "fastervqa">>,
   qalign  |-> <<"qalign">>,
   check   |-> <<"check">>]

FR_MODES ==
  <<"check", "vmaf4k", "vmaf", "vmaf4k-full", "vmaf-full", "psnr", "cvqa-fr",
    "cvqa-fr-ms", "lpips", "dists", "ssimulacra2", "butteraugli", "cvvdp-fhd",
    "cvvdp-4k">>

NR_MODES ==
  <<"cvqa-nr", "cvqa-nr-ms", "dover", "cover", "uvq", "maxvqa", "musiq",
    "qalign", "fastvqa", "fastervqa", "brisque", "niqe", "clipiqa", "clipiqa+">>

Range(s) == {s[i] : i \in DOMAIN s}

\* Python's "x in list"
In(x, list) == x \in Range(list)

AVAILABLE_MODES == UNION {Range(MODES[g]) : g \in Range(Groups)}

\* the backend group whose mode list holds the mode (the if/elif chain of
\* run_analysis tests the groups in this order)
GroupOf(mode) ==
  LET idx == {i \in DOMAIN Groups : In(mode, MODES[Groups[i]])}
  IN  IF idx = {} THEN "unknown"
      ELSE Groups[CHOOSE i \in idx : \A j \in idx : i <= j]

\* Python's substring test "sub in mode" for the markers the code tests
Substr(sub, mode) ==
  CASE sub = "psnr" -> mode \in {"psnr"}
    [] sub = "vmaf" -> mode \in {"vmaf4k", "vmaf", "vmaf4k-full", "vmaf-full"}
    [] sub = "cvqa-fr" -> mode \in {"cvqa-fr", "cvqa-fr-ms"}
    [] OTHER -> FALSE

(***************************************************************************)
(* Paths.  A path is a directory and a base name; a base name is the       *)
(* sequence of its characters, where the tokens written by the program     *)
(* (metric key, "json") and the extension stand for dot-free strings.      *)
(***************************************************************************)
None == "None"
NoFile == [dir |-> None, base |-> <<>>]

Path(d, b) == [dir |-> d, base |-> b]

Max(a, b) == IF a >= b THEN a ELSE b
Min(a, b) == IF a <= b THEN a ELSE b

\* os.path.splitext on a base name: split at the last dot that is not one of
\* the leading dots
LeadingDots(b) ==
  LET nd == {i \in 1..Len(b) : b[i] # "."}
  IN  IF nd = {} THEN Len(b) ELSE (CHOOSE i \in nd : \A j \in nd : i <= j) - 1

LastDot(b) ==
  LET ds == {i \in 1..Len(b) : b[i] = "." /\ i > LeadingDots(b)}
  IN  IF ds = {} THEN 0 ELSE CHOOSE i \in ds : \A j \in ds : j <= i

Stem(b) == IF LastDot(b) = 0 THEN b ELSE SubSeq(b, 1, LastDot(b) - 1)
Ext(b)  == IF LastDot(b) = 0 THEN <<>> ELSE SubSeq(b, LastDot(b), Len(b))

\* the part of the file name between the base name and ".json"
MetricKey(mode) ==
  IF Substr("psnr", mode) THEN "psnr"
  ELSE IF Substr("vmaf", mode) THEN "vmaf"
  ELSE mode

\* metrics/utils.py get_output_filename
get_output_filename(distorted, mode, output_dir) ==
  Path(IF output_dir = None THEN distorted.dir ELSE output_dir,
       Stem(distorted.base) \o <<".", MetricKey(mode), ".", "json">>)

\* str.lower() on one character
Lower(c) ==
  CASE c = "A" -> "a"
    [] c = "B" -> "b"
    [] c = "C" -> "c"
    [] OTHER -> c

\* length of the common case-insensitive prefix (the inner loop of
\* find_reference_file)
RECURSIVE MatchingChars(_, _, _)
MatchingChars(t, r, i) ==
  IF i > Min(Len(t), Len(r)) THEN 0
  ELSE IF Lower(t[i]) = Lower(r[i]) THEN 1 + MatchingChars(t, r, i + 1)
  ELSE 0

\* the outer loop of find_reference_file: state is (best_match, max)
RECURSIVE FindRefLoop(_, _, _, _, _)
FindRefLoop(target, refs, i, best, maxc) ==
  IF i > Len(refs) THEN best
  ELSE LET m == MatchingChars(target, Stem(refs[i].base), 1)
       IN  IF m > maxc THEN FindRefLoop(target, refs, i + 1, refs[i], m)
           ELSE FindRefLoop(target, refs, i + 1, best, maxc)

\* a resolution that keeps the last of the references with the longest prefix
find_reference_file_lastmax(distorted_file, reference_files) ==
  LET target == Stem(distorted_file.base)
      m(i) == MatchingChars(target, Stem(reference_files[i].base), 1)
      last == CHOOSE i \in DOMAIN reference_files :
                /\ \A j \in DOMAIN reference_files : m(j) <= m(i)
                /\ \A j \in DOMAIN reference_files : j > i => m(j) < m(i)
  IN  IF m(last) = 0 THEN NoFile ELSE reference_files[last]

find_reference_file(distorted_file, reference_files) ==
  FindRefLoop(Stem(distorted_file.base), reference_files, 1, NoFile, 0)

(***************************************************************************)
(* Media properties (metrics/utils.py get_video_info) and the precondition *)
(* validator (tools/vqcheck.py compare_video_properties)                   *)
(***************************************************************************)
\* get_video_info returns None on a probe failure
InfoNone == [ok |-> FALSE]

\* frame rates are in thousandths of a frame per second
Info(w, h, fc, fps, pf, cr, tb) ==
  [ok |-> TRUE, width |-> w, height |-> h, frame_count |-> fc, fps |-> fps,
   pix_fmt |-> pf, color_range |-> cr, timebase |-> tb]

\* info['timebase'], the time base of the probed stream; get_video_info as
\* it is in metrics/utils.py sets no such key, its callers read it
Timebase(info) == info["timebase"]

BaseInfo == Info(1920, 1080, 2, 30000, "yuv420p", "tv", "1/1000")

\* what probing the reference / the distorted file can yield
RefInfos == {BaseInfo, InfoNone}

DistInfos ==
  {BaseInfo, InfoNone,
   Info(1280, 720, 2, 30000, "yuv420p", "tv", "1/1000"),
   Info(1920, 1080, 3, 30000, "yuv420p", "tv", "1/1000"),
   Info(1920, 1080, 2, 30000, "yuv420p", "tv", "1/90000"),
   Info(1280, 720, 2, 30000, "yuv420p", "tv", "1/90000"),
   Info(1920, 1080, 2, 25000, "yuv422p", "pc", "1/1000"),
   Info(1920, 1080, 2, 30001, "yuv420p", "unknown", "1/1000")}

Abs(x) == IF x < 0 THEN 0 - x ELSE x

\* fps_tolerance = 0.001, in thousandths
fps_tolerance == 1

\* a comparison that does not look at the frame count
Messages_noframecount(ref_info, dist_info) ==
  (IF ref_info.width # dist_info.width \/ ref_info.height # dist_info.height
     THEN <<<<"ERROR", "Resolution mismatch">>>> ELSE <<>>)
  \o (IF Timebase(ref_info) # Timebase(dist_info)
        THEN <<<<"ERROR", "Timebase mismatch">>>> ELSE <<>>)

\* the message list built by compare_video_properties, in append order
Messages(ref_info, dist_info) ==
  (IF ref_info.width # dist_info.width \/ ref_info.height # dist_info.height
     THEN <<<<"ERROR", "Resolution mismatch">>>> ELSE <<>>)
  \o (IF ref_info.frame_count # dist_info.frame_count
        THEN <<<<"ERROR", "Frame count mismatch">>>> ELSE <<>>)
  \o (IF Abs(ref_info.fps - dist_info.fps) > fps_tolerance
        THEN <<<<"WARNING", "Framerate mismatch">>>> ELSE <<>>)
  \o (IF /\ ref_info.color_range # dist_info.color_range
         /\ ref_info.color_range # "unknown"
         /\ dist_info.color_range # "unknown"
        THEN <<<<"WARNING", "Color range mismatch">>>> ELSE <<>>)
  \o (IF ref_info.pix_fmt # dist_info.pix_fmt
        THEN <<<<"WARNING", "Pixel format mismatch">>>> ELSE <<>>)
  \o (IF Timebase(ref_info) # Timebase(dist_info)
        THEN <<<<"ERROR", "Timebase mismatch">>>> ELSE <<>>)

compare_video_properties(ref_info, dist_info) ==
  IF ~ref_info.ok \/ ~dist_info.ok THEN FALSE
  ELSE LET messages == Messages(ref_info, dist_info)
           has_errors == \E i \in DOMAIN messages : messages[i][1] = "ERROR"
       IN  ~has_errors

\* compare_video_properties of the standalone vqcheck.py: has_errors is set
\* for a resolution, a frame count and a frame rate mismatch
standalone_compare_video_properties(ref_info, dist_info) ==
  IF ~ref_info.ok \/ ~dist_info.ok THEN FALSE
  ELSE LET has_errors ==
             \/ ref_info.width # dist_info.width
             \/ ref_info.height # dist_info.height
             \/ ref_info.frame_count # dist_info.frame_count
             \/ Abs(ref_info.fps - dist_info.fps) > fps_tolerance
       IN  ~has_errors

(***************************************************************************)
(* The disk: a function from the paths that exist to what they hold.       *)
(*   "result"  a complete MetricResult                                     *)
(*   "noscore" a complete JSON object without any score field              *)
(*   "null"    the JSON text null                                          *)
(*   "raw"     complete output of the external tool that is not a result   *)
(*   "partial" a truncated file                                            *)
(***************************************************************************)
EmptyDisk == [p \in {} |-> "result"]

Exists(F, p) == p \in DOMAIN F

Write(F, p, c) == [q \in DOMAIN F \cup {p} |-> IF q = p THEN c ELSE F[q]]

\* how an external invocation can end
BackendOutcomes ==
  {"ok",             \* exit status 0, output as expected
   "nonzero",        \* failed before it created its output file
   "nonzero_output", \* failed after it had created its output file
   "unparseable",    \* exit status 0, output not of the expected form
   "nolaunch",       \* the process or model could not be started
   "killed"}         \* the program was interrupted during the invocation

\* how the write of a result file can end
WriteOutcomes == {"written", "open_failed", "truncated", "killed"}

\* what a runner hands back: ret is "res" (a result), "nil" (None), "raise"
\* (an exception leaves the runner) or "killed" (the program was
\* interrupted); invoked tells whether the backend was started; saved
\* whether the result file was written completely
Ret(ret, F, invoked, saved) ==
  [ret |-> ret, files |-> F, invoked |-> invoked, saved |-> saved]

\* metrics/utils.py save_json, followed by "return results" in the runner:
\* open(output_file, 'w') truncates, json.dump writes, and every Exception
\* is printed and swallowed
save_json(F, data, output_file, wo, results) ==
  CASE wo = "written"     -> Ret(results, Write(F, output_file, data), TRUE, TRUE)
    [] wo = "open_failed" -> Ret(results, F, TRUE, FALSE)
    [] wo = "truncated"   -> Ret(results, Write(F, output_file, "partial"), TRUE, FALSE)
    [] wo = "killed"      -> Ret("killed", Write(F, output_file, "partial"), TRUE, FALSE)

(***************************************************************************)
(* Backend runners (metrics/*.py).  Each takes the disk F, the way the     *)
(* external invocation ends (oc) and the way a write of the result file    *)
(* ends (wo), and returns a Ret.                                           *)
(***************************************************************************)
\* a skip test that never fires
AlreadyThere_never(F, distorted, mode, output_dir) == FALSE

\* the test run_analysis and every runner start with: "if output_dir is not
\* None" and the output file exists, "exists already - SKIPPING"
AlreadyThere(F, distorted, mode, output_dir) ==
  output_dir # None /\ Exists(F, get_output_filename(distorted, mode, output_dir))

\* metrics/ffmpeg.py run_ffmpeg: ffmpeg itself writes its log / stats file to
\* the canonical path (log_path= / stats_file= of get_lavfi); for psnr the
\* parsed data is then saved over it.  Everything after the prologue is in
\* try / except Exception.  Without an output directory the file is a
\* temporary one that is unlinked.
\* scale=None and fps=None
NoScale == <<>>
NoFps == -1

\* metrics/ffmpeg.py get_lavfi(mode, output_file, scale, fps): the filters of
\* the prestring in front of the metric filter.  The fps prestring puts an
\* fps filter on both inputs; the scale prestring, assigned after it,
\* replaces it and holds a scale filter on the distorted input only.
NoLavfi == [metric |-> "none"]

get_lavfi(mode, scale, fps) ==
  [metric |-> IF Substr("vmaf", mode) THEN "libvmaf"
              ELSE IF Substr("psnr", mode) THEN "psnr" ELSE "",
   distorted_scale |-> scale,
   distorted_fps |-> IF scale # NoScale THEN NoFps ELSE fps,
   reference_fps |-> IF scale # NoScale THEN NoFps ELSE fps]

run_ffmpeg(mode, distorted, reference, scale, fps, output_dir, oc, wo, F) ==
  LET output_file == get_output_filename(distorted, mode, output_dir)
  IN  IF AlreadyThere(F, distorted, mode, output_dir) THEN Ret("nil", F, FALSE, FALSE)
      ELSE IF output_dir = None
        THEN Ret(CASE oc = "ok" -> "res" [] oc = "killed" -> "killed" [] OTHER -> "nil",
                 F, TRUE, FALSE)
      ELSE CASE oc = "ok" ->
                  IF Substr("psnr", mode)
                    THEN save_json(Write(F, output_file, "raw"), "result", output_file, wo, "res")
                    ELSE Ret("res", Write(F, output_file, "result"), TRUE, TRUE)
             [] oc = "nonzero" -> Ret("nil", F, TRUE, FALSE)
             [] oc = "nonzero_output" -> Ret("nil", Write(F, output_file, "partial"), TRUE, FALSE)
             [] oc = "unparseable" -> Ret("nil", Write(F, output_file, "raw"), TRUE, FALSE)
             [] oc = "nolaunch" -> Ret("nil", F, TRUE, FALSE)
             [] oc = "killed" -> Ret("killed", Write(F, output_file, "partial"), TRUE, FALSE)

\* metrics/cvqa/cvqa.py run_cvqa: the model code writes output_file itself at
\* its very end; the runner then loads it.  Everything is in try / except.
run_cvqa(mode, distorted, reference, output_dir, oc, wo, F) ==
  LET output_file == get_output_filename(distorted, mode, output_dir)
  IN  IF AlreadyThere(F, distorted, mode, output_dir) THEN Ret("nil", F, FALSE, FALSE)
      ELSE IF output_dir = None
        THEN Ret(CASE oc = "ok" -> "res" [] oc = "killed" -> "killed" [] OTHER -> "nil",
                 F, TRUE, FALSE)
      ELSE CASE oc = "ok" -> Ret("res", Write(F, output_file, "result"), TRUE, TRUE)
             [] oc = "nonzero" -> Ret("nil", F, TRUE, FALSE)
             [] oc = "nonzero_output" -> Ret("nil", Write(F, output_file, "partial"), TRUE, FALSE)
             [] oc = "unparseable" -> Ret("nil", Write(F, output_file, "partial"), TRUE, FALSE)
             [] oc = "nolaunch" -> Ret("nil", F, TRUE, FALSE)
             [] oc = "killed" -> Ret("killed", Write(F, output_file, "partial"), TRUE, FALSE)

\* metrics/lpips.py run_lpips(reference, distorted, mode, output_dir) is
\* called as run_lpips(mode, distorted, reference, output_dir): the mode name
\* is taken for the reference video, frame extraction from it fails, and
\* nothing in the runner catches the error.
run_lpips(mode, distorted, reference, output_dir, oc, wo, F) ==
  Ret("raise", F, FALSE, FALSE)

\* the shape shared by run_dover, run_maxvqa and run_uvq: after the prologue
\* everything is in try / except Exception; a non-zero status returns None;
\* the parser returns None on unexpected output; "if output_file:
\* save_json(results, output_file)" runs whatever the parser returned
VenvRunner(mode, distorted, output_dir, oc, wo, F) ==
  LET output_file == get_output_filename(distorted, mode, output_dir)
  IN  IF AlreadyThere(F, distorted, mode, output_dir) THEN Ret("nil", F, FALSE, FALSE)
      ELSE CASE oc = "ok" ->
                  IF output_dir # None THEN save_json(F, "result", output_file, wo, "res")
                  ELSE Ret("res", F, TRUE, FALSE)
             [] oc = "unparseable" ->
                  IF output_dir # None THEN save_json(F, "null", output_file, wo, "nil")
                  ELSE Ret("nil", F, TRUE, FALSE)
             [] oc = "killed" -> Ret("killed", F, TRUE, FALSE)
             [] OTHER -> Ret("nil", F, TRUE, FALSE)

\* metrics/dover.py run_dover
run_dover(mode, distorted, output_dir, oc, wo, F) ==
  VenvRunner(mode, distorted, output_dir, oc, wo, F)

\* metrics/cover.py run_cover: as above, the save guarded by
\* output_file.endswith('.json'), which holds for the canonical path (and for
\* the temporary file used without an output directory)
run_cover(mode, distorted, output_dir, oc, wo, F) ==
  VenvRunner(mode, distorted, output_dir, oc, wo, F)

\* metrics/uvq.py run_uvq
run_uvq(mode, distorted, output_dir, oc, wo, F) ==
  VenvRunner(mode, distorted, output_dir, oc, wo, F)

\* metrics/maxvqa.py run_maxvqa
run_maxvqa(mode, distorted, reference, output_dir, oc, wo, F) ==
  VenvRunner(mode, distorted, output_dir, oc, wo, F)

\* the shape shared by run_pyiqa, run_jpegxl_metric and run_fastvqa:
\* everything after the prologue is in try / except Exception and every
\* failure, a parse failure included, raises before the save
InProcessRunner(mode, distorted, output_dir, oc, wo, F) ==
  LET output_file == get_output_filename(distorted, mode, output_dir)
  IN  IF AlreadyThere(F, distorted, mode, output_dir) THEN Ret("nil", F, FALSE, FALSE)
      ELSE CASE oc = "ok" ->
                  IF output_dir # None THEN save_json(F, "result", output_file, wo, "res")
                  ELSE Ret("res", F, TRUE, FALSE)
             [] oc = "killed" -> Ret("killed", F, TRUE, FALSE)
             [] OTHER -> Ret("nil", F, TRUE, FALSE)

\* metrics/pyiqa.py run_pyiqa
run_pyiqa(mode, distorted, reference, output_dir, oc, wo, F) ==
  InProcessRunner(mode, distorted, output_dir, oc, wo, F)

\* metrics/jpegxl.py run_jpegxl_metric
run_jpegxl_metric(metric, distorted, reference, output_dir, oc, wo, F) ==
  InProcessRunner(metric, distorted, output_dir, oc, wo, F)

\* metrics/fastvqa/fastvqa.py run_fastvqa
run_fastvqa(mode, distorted, output_dir, oc, wo, F) ==
  InProcessRunner(mode, distorted, output_dir, oc, wo, F)

\* metrics/colorvideovdp.py run_cvvdp: no try / except.  run_in_venv returns
\* None when the process cannot be started and result.returncode raises; a
\* non-zero status returns None; the parser returns a dict with or without a
\* score, which is saved and returned either way.
run_cvvdp(mode, distorted, reference, output_dir, oc, wo, F) ==
  LET output_file == get_output_filename(distorted, mode, output_dir)
  IN  IF AlreadyThere(F, distorted, mode, output_dir) THEN Ret("nil", F, FALSE, FALSE)
      ELSE CASE oc = "ok" ->
                  IF output_dir # None THEN save_json(F, "result", output_file, wo, "res")
                  ELSE Ret("res", F, TRUE, FALSE)
             [] oc = "unparseable" ->
                  IF output_dir # None THEN save_json(F, "noscore", output_file, wo, "res")
                  ELSE Ret("res", F, TRUE, FALSE)
             [] oc = "nolaunch" -> Ret("raise", F, TRUE, FALSE)
             [] oc = "killed" -> Ret("killed", F, TRUE, FALSE)
             [] OTHER -> Ret("nil", F, TRUE, FALSE)

\* metrics/qalign.py run_qalign: as run_cvvdp, but the non-zero branch calls
\* the built-in print with force=True, which raises TypeError
run_qalign(mode, distorted, output_dir, oc, wo, F) ==
  LET output_file == get_output_filename(distorted, mode, output_dir)
  IN  IF AlreadyThere(F, distorted, mode, output_dir) THEN Ret("nil", F, FALSE, FALSE)
      ELSE CASE oc = "ok" ->
                  IF output_dir # None THEN save_json(F, "result", output_file, wo, "res")
                  ELSE Ret("res", F, TRUE, FALSE)
             [] oc = "unparseable" ->
                  IF output_dir # None THEN save_json(F, "noscore", output_file, wo, "res")
                  ELSE Ret("res", F, TRUE, FALSE)
             [] oc = "killed" -> Ret("killed", F, TRUE, FALSE)
             [] OTHER -> Ret("raise", F, TRUE, FALSE)

(***************************************************************************)
(* tools/vqcheck.py: run_analysis, get_jobs, check_model_availability      *)
(***************************************************************************)
\* the condition of line 153, ('vmaf' or 'psnr' in mode): Python parses it as
\* 'vmaf' or ('psnr' in mode), and the non-empty string 'vmaf' is true
CorrectiveFamily(mode) == TRUE \/ Substr("psnr", mode)

\* what run_analysis returns, (properties_match, results), with the effect
\* of the call and the correction handed to the backend
Analysis(pm, r, scale, fps) ==
  [pm |-> pm, ret |-> r.ret, files |-> r.files, invoked |-> r.invoked,
   saved |-> r.saved, scale |-> scale, fps |-> fps]

\* the if / elif chain over the backend groups at the end of run_analysis
RunBackend(mode, distorted, reference, scale, fps, output_dir, oc, wo, F) ==
  LET g == GroupOf(mode)
  IN  CASE g = "ffmpeg"  -> run_ffmpeg(mode, distorted, reference, scale, fps, output_dir, oc, wo, F)
        [] g = "cvqa"    -> run_cvqa(mode, distorted, reference, output_dir, oc, wo, F)
        [] g = "lpips"   -> run_lpips(mode, distorted, reference, output_dir, oc, wo, F)
        [] g = "dover"   -> run_dover(mode, distorted, output_dir, oc, wo, F)
        [] g = "cover"   -> run_cover(mode, distorted, output_dir, oc, wo, F)
        [] g = "cvvdp"   -> run_cvvdp(mode, distorted, reference, output_dir, oc, wo, F)
        [] g = "uvq"     -> run_uvq(mode, distorted, output_dir, oc, wo, F)
        [] g = "maxvqa"  -> run_maxvqa(mode, distorted, reference, output_dir, oc, wo, F)
        [] g = "pyiqa"   -> run_pyiqa(mode, distorted, reference, output_dir, oc, wo, F)
        [] g = "jpegxl"  -> run_jpegxl_metric(mode, distorted, reference, output_dir, oc, wo, F)
        [] g = "fastvqa" -> run_fastvqa(mode, distorted, output_dir, oc, wo, F)
        [] g = "qalign"  -> run_qalign(mode, distorted, output_dir, oc, wo, F)
        [] OTHER         -> Ret("raise", F, FALSE, FALSE)   \* ValueError: Unknown mode

run_analysis(mode, distorted, reference, output_dir, ref_info, dist_info, oc, wo, F) ==
  IF AlreadyThere(F, distorted, mode, output_dir)
    THEN Analysis(TRUE, Ret("nil", F, FALSE, FALSE), NoScale, NoFps)
  ELSE
    LET checked == In(mode, FR_MODES) /\ reference # NoFile
        properties_match ==
          IF checked THEN compare_video_properties(ref_info, dist_info) ELSE TRUE
        correct == checked /\ mode # "check" /\ ~properties_match /\ CorrectiveFamily(mode)
        scale ==
          IF /\ correct /\ ref_info.ok /\ dist_info.ok
             /\ (ref_info.width # dist_info.width \/ ref_info.height # dist_info.height)
            THEN <<ref_info.width, ref_info.height>> ELSE NoScale
        reference_fps ==
          IF /\ correct /\ ref_info.ok /\ dist_info.ok
             /\ Timebase(ref_info) # Timebase(dist_info)
            THEN ref_info.fps ELSE NoFps
        skip == Analysis(properties_match, Ret("nil", F, FALSE, FALSE), NoScale, NoFps)
    IN  IF checked /\ mode = "check" THEN skip
        ELSE IF correct /\ (~ref_info.ok \/ ~dist_info.ok) THEN skip
        ELSE IF checked /\ ~properties_match /\ ~correct THEN skip
        ELSE Analysis(properties_match,
                      RunBackend(mode, distorted, reference, scale, reference_fps,
                                 output_dir, oc, wo, F),
                      scale, reference_fps)

Job(mode, distorted, reference, output_dir) ==
  [mode |-> mode, distorted |-> distorted, reference |-> reference,
   output_dir |-> output_dir]

\* the reference get_jobs picks for one distorted file
ReferenceFor(distorted, reference_files) ==
  IF Len(reference_files) = 0 THEN NoFile
  ELSE IF Len(reference_files) = 1 THEN reference_files[1]
  ELSE find_reference_file(distorted, reference_files)

\* a loop that puts each job in front of the jobs planned before it
RECURSIVE GetJobsFrom_backwards(_, _, _, _, _, _)
GetJobsFrom_backwards(distorted_files, reference_files, mode, output_dir, F, i) ==
  IF i > Len(distorted_files) THEN <<>>
  ELSE
    LET distorted == distorted_files[i]
        reference == ReferenceFor(distorted, reference_files)
        rest == GetJobsFrom_backwards(distorted_files, reference_files, mode,
                                      output_dir, F, i + 1)
    IN  IF Exists(F, get_output_filename(distorted, mode, output_dir)) THEN rest
        ELSE IF reference = NoFile /\ In(mode, FR_MODES) THEN rest
        ELSE rest \o <<Job(mode, distorted, reference, output_dir)>>

\* the loop of get_jobs from position i on
RECURSIVE GetJobsFrom(_, _, _, _, _, _)
GetJobsFrom(distorted_files, reference_files, mode, output_dir, F, i) ==
  IF i > Len(distorted_files) THEN <<>>
  ELSE
    LET distorted == distorted_files[i]
        reference == ReferenceFor(distorted, reference_files)
        rest == GetJobsFrom(distorted_files, reference_files, mode, output_dir, F, i + 1)
    IN  IF Exists(F, get_output_filename(distorted, mode, output_dir)) THEN rest
        ELSE IF reference = NoFile /\ In(mode, FR_MODES) THEN rest
        ELSE <<Job(mode, distorted, reference, output_dir)>> \o rest

\* a planner that does not look for existing result files
RECURSIVE GetJobsNoSkipFrom(_, _, _, _, _)
GetJobsNoSkipFrom(distorted_files, reference_files, mode, output_dir, i) ==
  IF i > Len(distorted_files) THEN <<>>
  ELSE
    LET distorted == distorted_files[i]
        reference == ReferenceFor(distorted, reference_files)
        rest == GetJobsNoSkipFrom(distorted_files, reference_files, mode, output_dir, i + 1)
    IN  IF reference = NoFile /\ In(mode, FR_MODES) THEN rest
        ELSE <<Job(mode, distorted, reference, output_dir)>> \o rest

get_jobs_noskip(distorted_files, reference_files, mode, output_dir, F) ==
  GetJobsNoSkipFrom(distorted_files, reference_files, mode, output_dir, 1)

get_jobs(distorted_files, reference_files, mode, output_dir, F) ==
  GetJobsFrom(distorted_files, reference_files, mode, output_dir, F, 1)

\* the groups whose check function check_model_availability calls
CheckedGroups ==
  {"dover", "cover", "cvqa", "cvvdp", "uvq", "maxvqa", "pyiqa", "jpegxl",
   "fastvqa", "qalign"}

\* check_model_availability(mode, rebuild); av is what the check function
\* of the backend finds.  check_dover() takes no parameter and is called
\* with rebuild=rebuild, which raises TypeError.
check_model_availability(mode, av) ==
  IF GroupOf(mode) = "dover" THEN "raise"
  ELSE IF GroupOf(mode) \in CheckedGroups /\ av = "missing" THEN "unavailable"
  ELSE "ok"

(***************************************************************************)
(* Inputs of a vqcheck invocation                                          *)
(***************************************************************************)
Video(d, stem) == Path(d, stem \o <<".", "mkv">>)

fa  == Video("in", <<"a", "1">>)
fa2 == Path("in", <<"a", "1", ".", "mp4">>)
fb  == Video("in", <<"b", "1">>)
fc  == Video("in", <<"c", "1">>)
ra  == Video("ref", <<"a", "0">>)
rb  == Video("ref", <<"B", "0">>)

\* the distorted-file lists (-d a file or a directory)
DistortedLists == {<<>>, <<fa>>, <<fa, fb>>, <<fa, fa2>>, <<fc, fa>>}

\* the reference-file lists when -r is given (a directory may hold no video)
ReferenceLists == {<<>>, <<ra>>, <<ra, rb>>}

\* -o: absent, given without a value (const '.'), or a directory
OutputArgs == {None, ".", "out"}

AvailabilityOutcomes == {"ok", "missing"}

(***************************************************************************)
(* State of the vqcheck program and of the disk it runs on                 *)
(***************************************************************************)
VARIABLES
  files,            \* the disk
  mode,             \* args.mode
  distorted_files,  \* main: distorted_files
  has_reference,    \* main: whether args.reference was given
  reference_files,  \* main: reference_files
  args_output,      \* args.output
  pc,               \* position of main: "start", "planned", "loop", or how
                    \* it ended: "done", "crashed", "killed"
  avail,            \* result of check_model_availability, "unchecked" before
  jobs,             \* main: jobs
  idx,              \* index in jobs of the next loop iteration
  log,              \* one record per finished iteration of the job loop
  runs,             \* number of invocations started so far
  prev              \* how the previous invocation went

vqvars == <<files, mode, distorted_files, has_reference, reference_files,
            args_output, pc, avail, jobs, idx, log, runs, prev>>

\* the state of the aggmet program
VARIABLES
  existing_json,      \* content of the file given with -e, NoArg without -e
  metrics_dir,        \* the files under args.metrics_dir, in walk order
  consolidated_data,  \* main: consolidated_data
  metric_files,       \* main: metric_files
  errors,             \* main: errors
  agg_pc,             \* position of main: "start", "seeded", "loop",
                      \* "report", or how it ended: "written", "crashed"
  agg_i,              \* index in metric_files of the next loop iteration
  output_file,        \* content of args.output_file
  agg_runs            \* number of invocations started so far

aggvars == <<existing_json, metrics_dir, consolidated_data, metric_files,
             errors, agg_pc, agg_i, output_file, agg_runs>>

\* one call of compare_video_properties and of run_analysis on a pair of
\* probed videos
VARIABLES
  ana_pc,    \* "ready", "compared", "done"
  ana_mode,  \* the mode of the job
  ana_ref,   \* get_video_info(reference)
  ana_dist,  \* get_video_info(distorted)
  ana_cmp,   \* what the comparison gave
  ana_res    \* what run_analysis gave

anavars == <<ana_pc, ana_mode, ana_ref, ana_dist, ana_cmp, ana_res>>

\* calls of the reference resolution of get_jobs on one distorted file
VARIABLES
  ref_pc,          \* "ready", "resolved"
  ref_distorted,   \* the distorted file
  ref_files,       \* reference_files
  ref_out          \* the references returned, one per call

refvars == <<ref_pc, ref_distorted, ref_files, ref_out>>

\* one probe of a reference and a distorted file with ffprobe, followed by
\* the comparison and run_analysis
VARIABLES
  prb_pc,    \* "ready", "compared", "done"
  prb_mode,  \* the mode of the job
  prb_ref,   \* what ffprobe and cv2 give for the reference
  prb_dist,  \* what ffprobe and cv2 give for the distorted file
  prb_cmp,   \* "passed", "failed" or "raise"
  prb_res    \* what run_analysis gave

prbvars == <<prb_pc, prb_mode, prb_ref, prb_dist, prb_cmp, prb_res>>

\* one call of get_video_files on a directory tree
VARIABLES
  dsc_pc,    \* "ready", "done"
  dsc_tree,  \* the files os.walk meets, each with the directory it is in
  dsc_out    \* the list returned

dscvars == <<dsc_pc, dsc_tree, dsc_out>>

\* the name of one result file, written by the dispatcher and read by the
\* aggregator
VARIABLES
  nam_pc,         \* "ready", "done"
  nam_mode,       \* the mode of the job
  nam_distorted,  \* its distorted file
  nam_out         \* the path written and what the aggregator makes of it

namvars == <<nam_pc, nam_mode, nam_distorted, nam_out>>

\* calls of check_cover on the directory of the metrics package
VARIABLES
  cov_disk,  \* which of metrics/cover, its venv and its weights exist
  cov_log    \* the calls made: the rebuild flag and what was returned

covvars == <<cov_disk, cov_log>>

morevars == <<prbvars, dscvars, namvars, covvars>>

NoPrev == [njobs |-> 0, all_ok |-> FALSE, files |-> EmptyDisk]

VqInit ==
  /\ files = EmptyDisk
  /\ mode \in AVAILABLE_MODES
  /\ distorted_files \in DistortedLists
  /\ has_reference \in BOOLEAN
  /\ reference_files \in (IF has_reference THEN ReferenceLists ELSE {<<>>})
  /\ args_output \in OutputArgs
  /\ pc = "start"
  /\ avail = "unchecked"
  /\ jobs = <<>>
  /\ idx = 1
  /\ log = <<>>
  /\ runs = 1
  /\ prev = NoPrev

\* main, from argument handling to the job list (lines 249-291).  An FR mode
\* without -r returns; "-o" without a value evaluates
\* os.path.dirname(distorted) with distorted unbound, which raises NameError;
\* for an NR mode only args.reference is cleared, reference_files is kept.
Plan ==
  /\ pc = "start"
  /\ IF In(mode, FR_MODES) /\ ~has_reference
       THEN pc' = "done" /\ jobs' = <<>>
     ELSE IF args_output = "."
       THEN pc' = "crashed" /\ jobs' = <<>>
     ELSE /\ jobs' = get_jobs(distorted_files, reference_files, mode, args_output, files)
          /\ pc' = "planned"
  /\ UNCHANGED <<files, mode, distorted_files, has_reference, reference_files,
                 args_output, avail, idx, log, runs, prev>>
  /\ UNCHANGED <<aggvars, anavars, refvars, morevars>>

\* a main that enters the job loop whatever the availability check returns
CheckAvailability_nogate ==
  /\ pc = "planned"
  /\ \E av \in AvailabilityOutcomes :
       /\ avail' = check_model_availability(mode, av)
       /\ pc' = IF jobs = <<>> THEN "done" ELSE "loop"
  /\ UNCHANGED <<files, mode, distorted_files, has_reference, reference_files,
                 args_output, jobs, idx, log, runs, prev>>
  /\ UNCHANGED <<aggvars, anavars, refvars, morevars>>

\* main, lines 296-298: the availability check of the chosen mode
CheckAvailability ==
  /\ pc = "planned"
  /\ \E av \in AvailabilityOutcomes :
       /\ avail' = check_model_availability(mode, av)
       /\ pc' = CASE avail' = "raise" -> "crashed"
                  [] avail' = "unavailable" -> "done"
                  [] OTHER -> IF jobs = <<>> THEN "done" ELSE "loop"
  /\ UNCHANGED <<files, mode, distorted_files, has_reference, reference_files,
                 args_output, jobs, idx, log, runs, prev>>
  /\ UNCHANGED <<aggvars, anavars, refvars, morevars>>

\* the videos are probed only for a full-reference mode with a reference
\* (run_analysis line 147); otherwise there is nothing to draw
ProbeResults(job, infos) ==
  IF In(job.mode, FR_MODES) /\ job.reference # NoFile THEN infos ELSE {BaseInfo}

LogEntry(a) == [pm |-> a.pm, ret |-> a.ret, invoked |-> a.invoked, saved |-> a.saved]

\* one iteration of the job loop of main (lines 300-323): run_analysis on
\* jobs[idx]; nothing in main catches an exception
Dispatch ==
  /\ pc = "loop"
  /\ \E ref_info \in ProbeResults(jobs[idx], RefInfos),
        dist_info \in ProbeResults(jobs[idx], DistInfos),
        oc \in BackendOutcomes, wo \in WriteOutcomes :
       LET job == jobs[idx]
           a == run_analysis(mode, job.distorted, job.reference, job.output_dir,
                             ref_info, dist_info, oc, wo, files)
       IN  /\ files' = a.files
           /\ log' = Append(log, LogEntry(a))
           /\ idx' = idx + 1
           /\ pc' = CASE a.ret = "raise" -> "crashed"
                      [] a.ret = "killed" -> "killed"
                      [] OTHER -> IF idx = Len(jobs) THEN "done" ELSE "loop"
  /\ UNCHANGED <<mode, distorted_files, has_reference, reference_files,
                 args_output, avail, jobs, runs, prev>>
  /\ UNCHANGED <<aggvars, anavars, refvars, morevars>>

\* a job of the finished run succeeded: a result came back and, with an
\* output directory, its file was written completely
Succeeded(e) == e.ret = "res" /\ (args_output # None => e.saved)

\* the program is started again with the same arguments on the same disk
StartRun ==
  /\ pc \in {"done", "crashed", "killed"}
  /\ runs < MaxRuns
  /\ runs' = runs + 1
  /\ prev' = [njobs |-> Len(jobs),
              all_ok |-> /\ pc = "done" /\ avail = "ok"
                         /\ Len(log) = Len(jobs)
                         /\ \A i \in DOMAIN log : Succeeded(log[i]),
              files |-> files]
  /\ pc' = "start"
  /\ avail' = "unchecked"
  /\ jobs' = <<>>
  /\ idx' = 1
  /\ log' = <<>>
  /\ UNCHANGED <<files, mode, distorted_files, has_reference, reference_files,
                 args_output>>
  /\ UNCHANGED <<aggvars, anavars, refvars, morevars>>

VqNext == Plan \/ CheckAvailability \/ Dispatch \/ StartRun

(***************************************************************************)
(* tools/aggmet.py: JSON values                                            *)
(***************************************************************************)
\* a JSON document as json.load returns it; null is Python's None
JNull == [t |-> "null"]
JNum(n) == [t |-> "num", v |-> n]
JStr(s) == [t |-> "str", v |-> s]
JList(s) == [t |-> "list", v |-> s]
JDict(f) == [t |-> "dict", v |-> f]
EmptyDict == [k \in {} |-> JNull]

\* a file that is not JSON, and a path with no file
Unparseable == [t |-> "invalid"]
Missing == [t |-> "missing"]

\* Python truth value of a loaded document (`if existing_data`, `if not data`)
Truthy(x) ==
  CASE x.t = "null" -> FALSE
    [] x.t = "num"  -> x.v # 0
    [] x.t = "str"  -> Len(x.v) > 0
    [] x.t = "list" -> Len(x.v) > 0
    [] x.t = "dict" -> DOMAIN x.v # {}
    [] x.t = "object" -> Len(x.v) > 0

\* load_json_if_exists(filepath): None for a missing file and for every
\* error of open / json.load
load_json_if_exists(content) ==
  IF content.t \in {"missing", "invalid"} THEN JNull ELSE content

\* the result of evaluating an extractor: a value or the exception raised
Ok(x) == [st |-> "ok", v |-> x]
Raise(e) == [st |-> e]

\* x[k1][k2]...: a missing key raises KeyError, subscripting anything but a
\* dict with a string raises TypeError
RECURSIVE GetPath(_, _, _)
GetPath(x, path, i) ==
  IF i > Len(path) THEN Ok(x)
  ELSE IF x.t = "dict"
    THEN IF path[i] \in DOMAIN x.v
           THEN GetPath(x.v[path[i]], path, i + 1)
           ELSE Raise("KeyError")
  ELSE Raise("TypeError")

\* the three shapes of extractor in metric_configs
Item(k, p) == [key |-> k, kind |-> "path", path |-> p]
PsnrItem(k) == [key |-> k, kind |-> "psnr", path |-> <<"pooled_metrics">>]
FirstItem(k, p) == [key |-> k, kind |-> "first", path |-> p]

\* x[...][0]
First(c) ==
  CASE c.t = "list" -> IF Len(c.v) > 0 THEN Ok(c.v[1]) ELSE Raise("IndexError")
    [] c.t = "str"  -> IF Len(c.v) > 0 THEN Ok(JStr(<<c.v[1]>>))
                       ELSE Raise("IndexError")
    [] c.t = "dict" -> Raise("KeyError")
    [] OTHER        -> Raise("TypeError")

\* (6 * psnr_y + psnr_cb + psnr_cr) / 8 over the three pooled means; the
\* lookups are evaluated left to right, arithmetic on a non-number raises
\* TypeError.  The quotient is exact for the values the inputs hold.
WeightedPsnr(x) ==
  LET y  == GetPath(x, <<"pooled_metrics", "psnr_y", "mean">>, 1)
      cb == GetPath(x, <<"pooled_metrics", "psnr_cb", "mean">>, 1)
      cr == GetPath(x, <<"pooled_metrics", "psnr_cr", "mean">>, 1)
  IN  IF y.st # "ok" THEN y
      ELSE IF cb.st # "ok" THEN cb
      ELSE IF cr.st # "ok" THEN cr
      ELSE IF y.v.t = "num" /\ cb.v.t = "num" /\ cr.v.t = "num"
        THEN Ok(JNum((6 * y.v.v + cb.v.v + cr.v.v) \div 8))
      ELSE Raise("TypeError")

\* extractor(data) for one config item
extractor(item, data) ==
  CASE item.kind = "path" -> GetPath(data, item.path, 1)
    [] item.kind = "psnr" -> WeightedPsnr(data)
    [] item.kind = "first" ->
         LET c == GetPath(data, item.path, 1)
         IN  IF c.st = "ok" THEN First(c.v) ELSE c

metric_keys ==
  <<"vmaf", "avqbitsm0", "avqbitsm1", "avqbitsh0f", "lpips", "dover",
    "cover", "maxvqa", "uvq", "fastvqa", "fastervqa", "brisque",
    "niqe", "clipiqa", "clipiqa+", "dists", "musiq", "vila",
    "qalign", "cvqa-nr", "cvqa-nr-ms", "cvqa-fr", "cvqa-fr-ms", "p12043",
    "p12044", "siti", "clip">>

metric_configs(metric_key) ==
  CASE metric_key = "vmaf" ->
         <<Item("vmaf", <<"pooled_metrics", "vmaf", "mean">>),
           Item("vmaf", <<"pooled_metrics", "vmaf_4k", "mean">>),
           Item("vmaf-neg", <<"pooled_metrics", "vmaf_neg", "mean">>),
           Item("vif-scale0", <<"pooled_metrics", "integer_vif_scale0", "mean">>),
           Item("vif-scale0-egl", <<"pooled_metrics", "integer_vif_scale0_egl_1", "mean">>),
           Item("vif-scale1", <<"pooled_metrics", "integer_vif_scale1", "mean">>),
           Item("vif-scale1-egl", <<"pooled_metrics", "integer_vif_scale1_egl_1", "mean">>),
           Item("vif-scale2", <<"pooled_metrics", "integer_vif_scale2", "mean">>),
           Item("vif-scale2-egl", <<"pooled_metrics", "integer_vif_scale2_egl_1", "mean">>),
           Item("vif-scale3", <<"pooled_metrics", "integer_vif_scale3", "mean">>),
           Item("vif-scale3-egl", <<"pooled_metrics", "integer_vif_scale3_egl_1", "mean">>),
           Item("adm2", <<"pooled_metrics", "integer_adm2", "mean">>),
           Item("adm-scale0", <<"pooled_metrics", "integer_adm_scale0", "mean">>),
           Item("adm-scale1", <<"pooled_metrics", "integer_adm_scale1", "mean">>),
           Item("adm-scale2", <<"pooled_metrics", "integer_adm_scale2", "mean">>),
           Item("adm-scale3", <<"pooled_metrics", "integer_adm_scale3", "mean">>),
           Item("motion", <<"pooled_metrics", "integer_motion", "mean">>),
           Item("motion2", <<"pooled_metrics", "integer_motion2", "mean">>),
           PsnrItem("psnr"),
           Item("ssim", <<"pooled_metrics", "float_ssim", "mean">>),
           Item("ms-ssim", <<"pooled_metrics", "float_ms_ssim", "mean">>),
           Item("psnr-y", <<"pooled_metrics", "psnr_y", "mean">>),
           Item("psnr-cb", <<"pooled_metrics", "psnr_cb", "mean">>),
           Item("psnr-cr", <<"pooled_metrics", "psnr_cr", "mean">>),
           Item("psnr-hvs", <<"pooled_metrics", "psnr_hvs", "mean">>)>>
    [] metric_key = "avqbitsm0" ->
         <<Item("avqbitsm0", <<"per_sequence">>)>>
    [] metric_key = "avqbitsm1" ->
         <<Item("avqbitsm1", <<"per_sequence">>)>>
    [] metric_key = "avqbitsh0f" ->
         <<Item("avqbitsh0f", <<"per_sequence">>)>>
    [] metric_key = "lpips" ->
         <<Item("lpips", <<"metadata", "mean_distance">>)>>
    [] metric_key = "dover" ->
         <<Item("dover", <<"dover">>),
           Item("dover_aesthetic", <<"cover_res_0">>),
           Item("dover_technical", <<"cover_res_1">>),
           Item("dover", <<"fused_score">>),
           Item("dover_aesthetic", <<"aesthetic_score">>),
           Item("dover_technical", <<"technical_score">>)>>
    [] metric_key = "cover" ->
         <<Item("cover", <<"fused_score">>),
           Item("cover_aesthetic", <<"aesthetic_score">>),
           Item("cover_technical", <<"technical_score">>),
           Item("cover_semantic", <<"semantic_score">>)>>
    [] metric_key = "maxvqa" ->
         <<Item("maxvqa", <<"overall_score">>),
           Item("maxvqa_quality", <<"high quality vs low quality">>),
           Item("maxvqa_content", <<"good content vs bad content">>),
           Item("maxvqa_composition", <<"organized composition vs chaotic composition">>),
           Item("maxvqa_color", <<"vibrant color vs faded color">>),
           Item("maxvqa_lighting", <<"contrastive lighting vs gloomy lighting">>),
           Item("maxvqa_trajectory", <<"consistent trajectory vs incoherent trajectory">>),
           Item("maxvqa_aesthetics", <<"good aesthetics vs bad aesthetics">>),
           Item("maxvqa_sharpness", <<"sharp vs fuzzy">>),
           Item("maxvqa_focus", <<"in-focus vs out-of-focus">>),
           Item("maxvqa_noise", <<"noiseless vs noisy">>),
           Item("maxvqa_motion", <<"clear-motion vs blurry-motion">>),
           Item("maxvqa_stability", <<"stable vs shaky">>),
           Item("maxvqa_exposure", <<"well-exposed vs poorly-exposed">>),
           Item("maxvqa_compression", <<"original vs compressed">>),
           Item("maxvqa_fluency", <<"fluent vs choppy">>),
           Item("maxvqa_clarity", <<"clear vs severely degraded">>)>>
    [] metric_key = "uvq" ->
         <<Item("uvq", <<"uvq">>),
           Item("uvq_compression", <<"compression">>),
           Item("uvq_content", <<"content">>),
           Item("uvq_distortion", <<"distortion">>),
           Item("uvq_compression_content", <<"compression_content">>),
           Item("uvq_compression_distortion", <<"compression_distortion">>),
           Item("uvq_content_distortion", <<"content_distortion">>)>>
    [] metric_key = "fastvqa" ->
         <<Item("fastvqa", <<"score">>)>>
    [] metric_key = "fastervqa" ->
         <<Item("fastervqa", <<"fastervqa_score">>),
           Item("fastervqa", <<"score">>)>>
    [] metric_key = "brisque" ->
         <<Item("brisque", <<"mean_score">>)>>
    [] metric_key = "niqe" ->
         <<Item("niqe", <<"mean_score">>)>>
    [] metric_key = "clipiqa" ->
         <<Item("clipiqa", <<"mean_score">>)>>
    [] metric_key = "clipiqa+" ->
         <<Item("clipiqa+", <<"mean_score">>)>>
    [] metric_key = "dists" ->
         <<Item("dists", <<"mean_score">>)>>
    [] metric_key = "musiq" ->
         <<Item("musiq", <<"mean_musiq">>),
           Item("musiq", <<"mean_score">>)>>
    [] metric_key = "vila" ->
         <<Item("vila", <<"mean_vila">>)>>
    [] metric_key = "qalign" ->
         <<Item("qalign", <<"qalign_score">>),
           Item("qalign", <<"score">>)>>
    [] metric_key = "cvqa-nr" ->
         <<Item("cvqa-nr", <<"score">>)>>
    [] metric_key = "cvqa-nr-ms" ->
         <<Item("cvqa-nr-ms", <<"score">>)>>
    [] metric_key = "cvqa-fr" ->
         <<Item("cvqa-fr", <<"score">>)>>
    [] metric_key = "cvqa-fr-ms" ->
         <<Item("cvqa-fr-ms", <<"score">>)>>
    [] metric_key = "p12043" ->
         <<Item("p12043", <<"per_sequence">>)>>
    [] metric_key = "p12044" ->
         <<Item("p12044", <<"score">>)>>
    [] metric_key = "siti" ->
         <<Item("si", <<"aggregated_statistics", "si", "mean">>),
           Item("ti", <<"aggregated_statistics", "ti", "mean">>)>>
    [] metric_key = "clip" ->
         <<FirstItem("clip", <<"clip">>)>>
    [] OTHER -> <<>>

(***************************************************************************)
(* tools/aggmet.py: file names, the seed dataset and the merge             *)
(***************************************************************************)
\* filename.split('.'): the parts between the "." tokens
RECURSIVE SplitFrom(_, _, _, _)
SplitFrom(s, i, cur, acc) ==
  IF i > Len(s) THEN Append(acc, cur)
  ELSE IF s[i] = "." THEN SplitFrom(s, i + 1, <<>>, Append(acc, cur))
  ELSE SplitFrom(s, i + 1, Append(cur, s[i]), acc)

Split(s) == SplitFrom(s, 1, <<>>, <<>>)

\* '.'.join(parts)
RECURSIVE Join(_)
Join(parts) ==
  IF Len(parts) = 0 THEN <<>>
  ELSE IF Len(parts) = 1 THEN parts[1]
  ELSE parts[1] \o <<".">> \o Join(Tail(parts))

\* extract_name_and_metric(filename); (None, None) is base_name <<>>
extract_name_and_metric(filename) ==
  LET parts == Split(filename)
      n == Len(parts)
  IN  IF n >= 3 /\ parts[n] = <<"json">>
        THEN [base_name |-> Join(SubSeq(parts, 1, n - 2)), metric_type |-> parts[n - 1]]
        ELSE [base_name |-> <<>>, metric_type |-> <<>>]

\* filename.endswith('.json')
EndsWithJson(filename) ==
  Len(filename) >= 2 /\ SubSeq(filename, Len(filename) - 1, Len(filename)) = <<".", "json">>

\* an insertion-ordered dict as a sequence of [key, value] pairs
HasKey(d, k) == \E i \in DOMAIN d : d[i].key = k
KeyIndex(d, k) == CHOOSE i \in DOMAIN d : d[i].key = k
Get(d, k) == d[KeyIndex(d, k)].value

\* d[k] = x for a dict that moves an updated key to the end
PutKey_moves(d, k, x) ==
  IF HasKey(d, k)
    THEN Append(SelectSeq(d, LAMBDA e : e.key # k), [key |-> k, value |-> x])
  ELSE Append(d, [key |-> k, value |-> x])

PutKey(d, k, x) ==
  IF HasKey(d, k) THEN [d EXCEPT ![KeyIndex(d, k)].value = x]
  ELSE Append(d, [key |-> k, value |-> x])

\* a JSON object read with its key order (the name-keyed form of a seed)
JObject(pairs) == [t |-> "object", v |-> pairs]

\* a seed list keyed by position only
SeedKey_index(item, i) == JStr(<<"item_", ToString(i)>>)

\* item.get('name', f'item_{i}') for the i-th item, counted from 0
SeedKey(item, i) ==
  IF "name" \in DOMAIN item.v THEN item.v["name"]
  ELSE JStr(<<"item_", ToString(i)>>)

\* a load that keeps only the last item of a list seed
FromList_last(items, i, acc) ==
  IF Len(items) = 0 THEN acc
  ELSE <<[key |-> SeedKey(items[Len(items)], Len(items) - 1),
          value |-> items[Len(items)].v]>>

\* {item.get('name', f'item_{i}'): item for i, item in enumerate(existing_data)}
RECURSIVE FromList(_, _, _)
FromList(items, i, acc) ==
  IF i > Len(items) THEN acc
  ELSE FromList(items, i + 1, PutKey(acc, SeedKey(items[i], i - 1), items[i].v))

Seeded(d) == [crashed |-> FALSE, data |-> d]

\* main, lines 131-140: consolidated_data after the seed is read.  An item
\* of a list seed that is not a dict makes item.get raise AttributeError; a
\* seed that is a number or a string is kept as consolidated_data and makes
\* the first use of it as a dict raise.
LoadSeed(seed_file) ==
  IF seed_file.t = "noarg" THEN Seeded(<<>>)
  ELSE LET existing_data == load_json_if_exists(seed_file)
       IN  IF ~Truthy(existing_data) THEN Seeded(<<>>)
           ELSE IF existing_data.t = "object" THEN Seeded(existing_data.v)
           ELSE IF existing_data.t = "list"
                   /\ \A i \in DOMAIN existing_data.v : existing_data.v[i].t = "dict"
             THEN Seeded(FromList(existing_data.v, 1, <<>>))
           ELSE [crashed |-> TRUE, data |-> <<>>]

\* main, lines 142-153: metric_files after the walk over the listing
RECURSIVE Walk(_, _, _)
Walk(listing, i, acc) ==
  IF i > Len(listing) THEN acc
  ELSE LET filename == listing[i].name
           nm == extract_name_and_metric(filename)
           path == Path(listing[i].dir, filename)
           old == IF HasKey(acc, nm.base_name) THEN Get(acc, nm.base_name)
                  ELSE [m \in {} |-> NoFile]
           new == [m \in DOMAIN old \cup {nm.metric_type} |->
                     IF m = nm.metric_type THEN path ELSE old[m]]
       IN  IF ~EndsWithJson(filename) \/ nm.base_name = <<>>
             THEN Walk(listing, i + 1, acc)
             ELSE Walk(listing, i + 1, PutKey(acc, nm.base_name, new))

\* the content of the file at a path of the listing
ContentAt(listing, p) ==
  IF \E i \in DOMAIN listing : Path(listing[i].dir, listing[i].name) = p
    THEN listing[CHOOSE i \in DOMAIN listing :
                   Path(listing[i].dir, listing[i].name) = p].content
    ELSE Missing

\* the keys copied from a meta file (line 172)
MetaKeys ==
  {"bitrate", "bit_rate", "bpp", "bit_depth", "fps", "frame_rate", "framerate",
   "frames", "filesize", "encoding_time", "encoding_speed"}

\* entry[k] = x
Put(entry, k, x) ==
  [f \in DOMAIN entry \cup {k} |-> IF f = k THEN x ELSE entry[f]]

\* lines 169-176: metadata.items() raises unless metadata is a dict, and
\* value['spf'] raises unless the upscaling value is a dict with that key
ApplyMeta(entry, metadata) ==
  IF metadata.t # "dict" THEN [crashed |-> TRUE, entry |-> entry]
  ELSE LET m == metadata.v
           keys == DOMAIN m \cap MetaKeys
           copied == [f \in DOMAIN entry \cup keys |->
                        IF f \in keys THEN m[f] ELSE entry[f]]
           spf == IF "upscaling" \in DOMAIN m
                    THEN GetPath(m["upscaling"], <<"spf">>, 1)
                    ELSE Raise("absent")
       IN  IF "upscaling" \notin DOMAIN m
             THEN [crashed |-> FALSE, entry |-> copied]
           ELSE IF spf.st = "ok"
             THEN [crashed |-> FALSE, entry |-> Put(copied, "upscaling_spf", spf.v)]
           ELSE [crashed |-> TRUE, entry |-> copied]

\* an extractor loop that overwrites whatever the entry holds
IsSet_never(entry, output_key) == FALSE

\* line 192: output_key in entry and entry[output_key] is not None
IsSet(entry, output_key) ==
  output_key \in DOMAIN entry /\ entry[output_key] # JNull

\* lines 189-197: the extractors of one metric file, in table order; r holds
\* the entry and the error lists.  KeyError and TypeError are caught and
\* recorded, any other exception leaves main.
RECURSIVE RunItems(_, _, _, _, _, _)
RunItems(r, metric_key, file, data, config, j) ==
  IF j > Len(config) \/ r.crashed THEN r
  ELSE LET output_key == config[j].key
           x == extractor(config[j], data)
           r2 == IF IsSet(r.entry, output_key) THEN r
                 ELSE IF x.st = "ok"
                   THEN [r EXCEPT !.entry = Put(@, output_key, x.v)]
                 ELSE IF x.st \in {"KeyError", "TypeError"}
                   THEN [r EXCEPT !.failed_extract =
                           Append(@, [metric_key |-> metric_key,
                                      output_key |-> output_key, file |-> file])]
                 ELSE [r EXCEPT !.crashed = TRUE]
       IN  RunItems(r2, metric_key, file, data, config, j + 1)

\* lines 180-197: the metric keys of the table, in table order, for the
\* metric files of one base name
RECURSIVE RunMetrics(_, _, _, _)
RunMetrics(r, metrics, listing, k) ==
  IF k > Len(metric_keys) \/ r.crashed THEN r
  ELSE LET metric_key == metric_keys[k]
       IN  IF <<metric_key>> \notin DOMAIN metrics
             THEN RunMetrics(r, metrics, listing, k + 1)
           ELSE LET file == metrics[<<metric_key>>]
                    data == load_json_if_exists(ContentAt(listing, file))
                IN  IF ~Truthy(data)
                      THEN RunMetrics([r EXCEPT !.failed_load = Append(@, file)],
                                      metrics, listing, k + 1)
                      ELSE RunMetrics(RunItems(r, metric_key, file, data,
                                               metric_configs(metric_key), 1),
                                      metrics, listing, k + 1)

(***************************************************************************)
(* Inputs of an aggmet invocation                                          *)
(***************************************************************************)
\* a dict from one or more (key, value) pairs
Num1(k, n) == JDict(k :> JNum(n))

MetricFile(d, stem, metric, content) ==
  [dir |-> d, name |-> stem \o <<".", metric, ".", "json">>, content |-> content]

a1 == <<"a", "1">>
b1 == <<"b", "1">>

VmafDoc ==
  JDict("pooled_metrics" :>
          JDict(("vmaf_4k" :> Num1("mean", 6)) @@ ("psnr_y" :> Num1("mean", 8))
                @@ ("psnr_cb" :> Num1("mean", 16)) @@ ("psnr_cr" :> Num1("mean", 0))))

MetaDoc ==
  JDict(("bitrate" :> JNum(8)) @@ ("codec" :> JStr(<<"x">>))
        @@ ("upscaling" :> Num1("spf", 1)))

\* the files a metrics directory may hold
MetricFilePool ==
  { MetricFile("m", a1, "dover", Num1("dover", 1)),
    MetricFile("m", a1, "dover", Num1("fused_score", 2)),
    MetricFile("m", a1, "dover",
               JDict(("dover" :> JNum(1)) @@ ("fused_score" :> JNum(2))
                     @@ ("cover_res_0" :> JNum(3)))),
    MetricFile("m", a1, "dover", JDict(("dover" :> JNull) @@ ("fused_score" :> JNum(2)))),
    MetricFile("m", a1, "dover", Unparseable),
    MetricFile("m", a1, "musiq", Num1("mean_score", 4)),
    MetricFile("m", a1, "vmaf", VmafDoc),
    MetricFile("m", a1, "clip", JDict("clip" :> JList(<<>>))),
    MetricFile("m", a1, "clip", JDict("clip" :> JList(<<JNum(7)>>))),
    MetricFile("m", a1, "meta", MetaDoc),
    MetricFile("m", a1, "meta", Unparseable),
    MetricFile("m", b1, "dover", JDict(EmptyDict)),
    MetricFile("m/sub", a1, "dover", Num1("dover", 7)),
    [dir |-> "m", name |-> <<"n", ".", "txt">>, content |-> Unparseable],
    [dir |-> "m", name |-> <<".", "vmaf", ".", "json">>, content |-> VmafDoc] }

\* the listings os.walk may produce: files of the pool at distinct paths
Listings ==
  { l \in UNION { [1..n -> MetricFilePool] : n \in 0..MaxFiles } :
      \A i \in DOMAIN l, j \in DOMAIN l :
        i < j => Path(l[i].dir, l[i].name) # Path(l[j].dir, l[j].name) }

\* -e absent
NoArg == [t |-> "noarg"]

SeedEntry(stem, k, x) == JDict(("name" :> JStr(stem)) @@ (k :> x))

\* the seed datasets
Seeds ==
  { NoArg,
    Unparseable,
    JList(<<>>),
    JList(<<JNum(1)>>),
    JList(<<SeedEntry(a1, "dover", JNum(9))>>),
    JList(<<SeedEntry(a1, "dover", JNull), Num1("musiq", 3)>>),
    JList(<<SeedEntry(a1, "bitrate", JNum(5))>>),
    JObject(<<[key |-> JStr(a1), value |-> SeedEntry(a1, "musiq", JNum(9)).v]>>) }

AggWriteOutcomes == {"written", "open_failed", "truncated"}

(***************************************************************************)
(* State of the aggmet program                                             *)
(***************************************************************************)
NoErrors == [failed_load |-> <<>>, failed_extract |-> <<>>]

AggInit ==
  /\ existing_json \in Seeds
  /\ metrics_dir \in Listings
  /\ consolidated_data = <<>>
  /\ metric_files = <<>>
  /\ errors = NoErrors
  /\ agg_pc = "start"
  /\ agg_i = 1
  /\ output_file = Missing
  /\ agg_runs = 1

\* the aggregator is not running
AggIdle ==
  /\ existing_json = NoArg
  /\ metrics_dir = <<>>
  /\ consolidated_data = <<>>
  /\ metric_files = <<>>
  /\ errors = NoErrors
  /\ agg_pc = "idle"
  /\ agg_i = 1
  /\ output_file = Missing
  /\ agg_runs = 1

\* vqcheck is not running
VqIdle ==
  /\ files = EmptyDisk
  /\ mode = "vmaf"
  /\ distorted_files = <<>>
  /\ has_reference = FALSE
  /\ reference_files = <<>>
  /\ args_output = None
  /\ pc = "idle"
  /\ avail = "unchecked"
  /\ jobs = <<>>
  /\ idx = 1
  /\ log = <<>>
  /\ runs = 1
  /\ prev = NoPrev

\* main, lines 131-140
AggLoadSeed ==
  /\ agg_pc = "start"
  /\ LET s == LoadSeed(existing_json)
     IN  IF s.crashed
           THEN agg_pc' = "crashed" /\ UNCHANGED consolidated_data
           ELSE agg_pc' = "seeded" /\ consolidated_data' = s.data
  /\ UNCHANGED <<existing_json, metrics_dir, metric_files, errors, agg_i,
                 output_file, agg_runs>>
  /\ UNCHANGED <<vqvars, anavars, refvars, morevars>>

\* main, lines 142-161
AggWalk ==
  /\ agg_pc = "seeded"
  /\ metric_files' = Walk(metrics_dir, 1, <<>>)
  /\ errors' = NoErrors
  /\ agg_i' = 1
  /\ agg_pc' = IF metric_files' = <<>> THEN "report" ELSE "loop"
  /\ UNCHANGED <<existing_json, metrics_dir, consolidated_data, output_file,
                 agg_runs>>
  /\ UNCHANGED <<vqvars, anavars, refvars, morevars>>

\* one iteration of the loop over metric_files (lines 163-197); an exception
\* that is not caught ends main before anything is written
AggProcess ==
  /\ agg_pc = "loop"
  /\ LET base_name == JStr(metric_files[agg_i].key)
         metrics == metric_files[agg_i].value
         cd == IF HasKey(consolidated_data, base_name) THEN consolidated_data
               ELSE Append(consolidated_data,
                           [key |-> base_name, value |-> ("name" :> base_name)])
         meta == IF <<"meta">> \in DOMAIN metrics
                   THEN ApplyMeta(Get(cd, base_name),
                                  load_json_if_exists(
                                    ContentAt(metrics_dir, metrics[<<"meta">>])))
                   ELSE [crashed |-> FALSE, entry |-> Get(cd, base_name)]
         r == RunMetrics([entry |-> meta.entry, crashed |-> meta.crashed,
                          failed_load |-> errors.failed_load,
                          failed_extract |-> errors.failed_extract],
                         metrics, metrics_dir, 1)
     IN  IF r.crashed
           THEN /\ agg_pc' = "crashed"
                /\ UNCHANGED <<consolidated_data, errors, agg_i>>
           ELSE /\ consolidated_data' = PutKey(cd, base_name, r.entry)
                /\ errors' = [failed_load |-> r.failed_load,
                              failed_extract |-> r.failed_extract]
                /\ agg_i' = agg_i + 1
                /\ agg_pc' = IF agg_i = Len(metric_files) THEN "report" ELSE "loop"
  /\ UNCHANGED <<existing_json, metrics_dir, metric_files, output_file, agg_runs>>
  /\ UNCHANGED <<vqvars, anavars, refvars, morevars>>

\* list(consolidated_data.values())
OutputList(cd) == JList([i \in DOMAIN cd |-> JDict(cd[i].value)])

\* main, lines 200-266: the report and the write of the output file, which
\* is opened for writing at its final path
AggWrite ==
  /\ agg_pc = "report"
  /\ \E wo \in AggWriteOutcomes :
       CASE wo = "written" ->
              output_file' = OutputList(consolidated_data) /\ agg_pc' = "written"
         [] wo = "open_failed" ->
              UNCHANGED output_file /\ agg_pc' = "crashed"
         [] wo = "truncated" ->
              output_file' = Unparseable /\ agg_pc' = "crashed"
  /\ UNCHANGED <<existing_json, metrics_dir, consolidated_data, metric_files,
                 errors, agg_i, agg_runs>>
  /\ UNCHANGED <<vqvars, anavars, refvars, morevars>>

\* the program is started again on the same metrics directory, with the
\* output file of the run before as its seed
AggRerun ==
  /\ agg_pc \in {"written", "crashed"}
  /\ agg_runs < MaxAggRuns
  /\ agg_runs' = agg_runs + 1
  /\ existing_json' = output_file
  /\ consolidated_data' = <<>>
  /\ metric_files' = <<>>
  /\ errors' = NoErrors
  /\ agg_i' = 1
  /\ agg_pc' = "start"
  /\ UNCHANGED <<metrics_dir, output_file>>
  /\ UNCHANGED <<vqvars, anavars, refvars, morevars>>

AggNext == AggLoadSeed \/ AggWalk \/ AggProcess \/ AggWrite \/ AggRerun

(***************************************************************************)
(* compare_video_properties and run_analysis on one pair of videos         *)
(***************************************************************************)
\* the probe results compared: those of DistInfos and a video that differs
\* from the reference in resolution, frame count and every soft property
ComparedInfos ==
  DistInfos \cup {Info(1280, 720, 3, 25000, "yuv422p", "pc", "1/1000"),
                  Info(1920, 1080, 2, 25000, "yuv420p", "tv", "1/1000"),
                  Info(1920, 1080, 2, 30000, "yuv420p", "pc", "1/1000")}

NoComparison == [passed |-> TRUE, standalone |-> TRUE, messages |-> <<>>]

NoAnalysis ==
  [pm |-> TRUE, ret |-> "nil", invoked |-> FALSE, scale |-> NoScale,
   fps |-> NoFps, lavfi |-> NoLavfi]

AnaIdle ==
  /\ ana_pc = "idle"
  /\ ana_mode = "vmaf"
  /\ ana_ref = BaseInfo
  /\ ana_dist = BaseInfo
  /\ ana_cmp = NoComparison
  /\ ana_res = NoAnalysis

AnaInit ==
  /\ ana_pc = "ready"
  /\ ana_mode \in AVAILABLE_MODES
  /\ ana_ref \in RefInfos
  /\ ana_dist \in ComparedInfos
  /\ ana_cmp = NoComparison
  /\ ana_res = NoAnalysis

\* compare_video_properties(reference, distorted), in both versions
AnaCompare ==
  /\ ana_pc = "ready"
  /\ ana_cmp' = [passed |-> compare_video_properties(ana_ref, ana_dist),
                 standalone |-> standalone_compare_video_properties(ana_ref, ana_dist),
                 messages |-> IF ana_ref.ok /\ ana_dist.ok
                                THEN Messages(ana_ref, ana_dist) ELSE <<>>]
  /\ ana_pc' = "compared"
  /\ UNCHANGED <<ana_mode, ana_ref, ana_dist, ana_res>>
  /\ UNCHANGED <<vqvars, aggvars, refvars, morevars>>

\* run_analysis(mode, distorted, reference, output_dir) on an empty disk;
\* for an ffmpeg mode whose backend is invoked, the filter graph of the
\* command (run_ffmpeg line 27)
AnaDispatch ==
  /\ ana_pc = "compared"
  /\ \E oc \in BackendOutcomes, wo \in WriteOutcomes, output_dir \in {None, "out"} :
       LET a == run_analysis(ana_mode, fa, ra, output_dir, ana_ref, ana_dist,
                             oc, wo, EmptyDisk)
       IN  ana_res' = [pm |-> a.pm, ret |-> a.ret, invoked |-> a.invoked,
                       scale |-> a.scale, fps |-> a.fps,
                       lavfi |-> IF GroupOf(ana_mode) = "ffmpeg" /\ a.invoked
                                   THEN get_lavfi(ana_mode, a.scale, a.fps)
                                   ELSE NoLavfi]
  /\ ana_pc' = "done"
  /\ UNCHANGED <<ana_mode, ana_ref, ana_dist, ana_cmp>>
  /\ UNCHANGED <<vqvars, aggvars, refvars, morevars>>

AnaNext == AnaCompare \/ AnaDispatch

(***************************************************************************)
(* The reference resolution of get_jobs                                    *)
(***************************************************************************)
\* the reference files a directory may hold
ReferencePool ==
  {ra, rb,
   Video("ref", <<"A", "1", "x">>),
   Video("ref", <<"a", "1">>),
   Path("ref2", <<"b", ".", "1", ".", "mp4">>)}

\* the distorted files resolved
ResolvedFiles == {fa, fb, fc, Path("in", <<"b", ".", "1", "c", ".", "mkv">>)}

RefIdle ==
  /\ ref_pc = "idle"
  /\ ref_distorted = fa
  /\ ref_files = <<>>
  /\ ref_out = <<>>

RefInit ==
  /\ ref_pc = "ready"
  /\ ref_distorted \in ResolvedFiles
  /\ ref_files \in UNION { [1..n -> ReferencePool] : n \in 0..MaxRefs }
  /\ ref_out = <<>>

\* get_jobs, lines 217-224, for one distorted file; the planner of a later
\* run makes the same call again
ResolveReference ==
  /\ ref_pc \in {"ready", "resolved"}
  /\ Len(ref_out) < 2
  /\ ref_out' = Append(ref_out, ReferenceFor(ref_distorted, ref_files))
  /\ ref_pc' = "resolved"
  /\ UNCHANGED <<ref_distorted, ref_files>>
  /\ UNCHANGED <<vqvars, aggvars, anavars, morevars>>

RefNext == ResolveReference

(***************************************************************************)
(* metrics/utils.py get_video_info                                         *)
(***************************************************************************)
\* the decimal strings int() and float() accept, as single tokens
IntTokens == {"0", "1", "25", "30"}

TokenValue(tok) ==
  CASE tok = "0" -> 0
    [] tok = "1" -> 1
    [] tok = "25" -> 25
    [] tok = "30" -> 30

\* int(s) / float(s) of a string of tokens: Ok(n) or ValueError
ParseInt(s) ==
  IF Len(s) = 1 /\ s[1] \in IntTokens THEN Ok(TokenValue(s[1]))
  ELSE Raise("ValueError")

\* fps_str.split('/')
RECURSIVE SplitSlash(_, _, _, _)
SplitSlash(s, i, cur, acc) ==
  IF i > Len(s) THEN Append(acc, cur)
  ELSE IF s[i] = "/" THEN SplitSlash(s, i + 1, <<>>, Append(acc, cur))
  ELSE SplitSlash(s, i + 1, Append(cur, s[i]), acc)

\* lines 40-45: the frame rate in thousandths of a frame per second
ParseFps(fps_str) ==
  IF "/" \in Range(fps_str)
    THEN LET parts == SplitSlash(fps_str, 1, <<>>, <<>>)
         IN  IF Len(parts) # 2 THEN Raise("ValueError")
             ELSE LET num == ParseInt(parts[1])
                      den == ParseInt(parts[2])
                  IN  IF num.st # "ok" \/ den.st # "ok" THEN Raise("ValueError")
                      ELSE IF den.v = 0 THEN Ok(0)
                      ELSE Ok((num.v * 1000) \div den.v)
  ELSE LET f == ParseInt(fps_str)
       IN  IF f.st = "ok" THEN Ok(f.v * 1000) ELSE f

\* int(stream.get(key, 0))
IntField(stream, key) ==
  IF key \notin DOMAIN stream THEN Ok(0)
  ELSE IF stream[key].t = "num" THEN Ok(stream[key].v)
  ELSE IF stream[key].t = "str" THEN ParseInt(stream[key].v)
  ELSE Raise("TypeError")

\* stream.get(key, 'unknown') for a string field
StrField(stream, key) ==
  IF key \in DOMAIN stream /\ stream[key].t = "str" /\ Len(stream[key].v) = 1
    THEN stream[key].v[1] ELSE "unknown"

\* what the two tools give for a file: how ffprobe ended, its standard
\* output, the frame count of cv2 and the timebase of the stream
Probe(proc, stdout, frames, tb) ==
  [proc |-> proc, stdout |-> stdout, frames |-> frames, timebase |-> tb]

\* get_video_info(video_path): Ok(info), Ok(InfoNone) for the two exceptions
\* that are caught, and the exception otherwise
get_video_info(p) ==
  IF p.proc = "not_started" THEN Raise("FileNotFoundError")
  ELSE IF p.proc = "failed" THEN Ok(InfoNone)
  ELSE IF p.stdout.t = "invalid" THEN Ok(InfoNone)
  ELSE IF p.stdout.t # "dict" THEN Raise("TypeError")
  ELSE IF "streams" \notin DOMAIN p.stdout.v THEN Raise("KeyError")
  ELSE LET streams == p.stdout.v["streams"]
       IN  IF ~Truthy(streams) THEN Raise("Exception")
           ELSE IF streams.t # "list" THEN Raise("KeyError")
           ELSE IF streams.v[1].t # "dict" THEN Raise("AttributeError")
           ELSE LET stream == streams.v[1].v
                    fps_str == IF "r_frame_rate" \in DOMAIN stream
                                 THEN stream["r_frame_rate"]
                                 ELSE JStr(<<"0", "/", "1">>)
                    fps == IF fps_str.t = "str" THEN ParseFps(fps_str.v)
                           ELSE Raise("TypeError")
                    width == IntField(stream, "width")
                    height == IntField(stream, "height")
               IN  IF fps.st # "ok" THEN fps
                   ELSE IF width.st # "ok" THEN width
                   ELSE IF height.st # "ok" THEN height
                   ELSE Ok(Info(width.v, height.v, p.frames, fps.v,
                                StrField(stream, "pix_fmt"),
                                StrField(stream, "color_range"), p.timebase))

\* the first stream of an ffprobe document
StreamDoc(fps_str, w, h) ==
  JDict(("r_frame_rate" :> fps_str) @@ ("width" :> w) @@ ("height" :> h)
        @@ ("pix_fmt" :> JStr(<<"yuv420p">>)) @@ ("color_range" :> JStr(<<"tv">>)))

ProbeDoc(streams) == JDict("streams" :> streams)

\* probes of a file ffprobe can read
GoodProbes ==
  { Probe("ok", ProbeDoc(JList(<<StreamDoc(JStr(<<"30", "/", "1">>), JNum(1920), JNum(1080))>>)),
          2, "1/1000"),
    Probe("ok", ProbeDoc(JList(<<StreamDoc(JStr(<<"25">>), JNum(1280), JNum(720))>>)),
          2, "1/1000"),
    Probe("ok", ProbeDoc(JList(<<StreamDoc(JStr(<<"30", "/", "1">>), JNum(1920), JNum(1080))>>)),
          3, "1/1000") }

\* a subprocess failure, and the malformed outputs: no JSON, no stream list,
\* an empty stream list, a frame rate or a dimension that is not a number
BadProbes ==
  { Probe("failed", Unparseable, 0, "1/1000"),
    Probe("not_started", Unparseable, 0, "1/1000"),
    Probe("ok", Unparseable, 2, "1/1000"),
    Probe("ok", JDict(EmptyDict), 2, "1/1000"),
    Probe("ok", ProbeDoc(JList(<<>>)), 2, "1/1000"),
    Probe("ok", ProbeDoc(JList(<<StreamDoc(JStr(<<"N", "/", "A">>), JNum(1920), JNum(1080))>>)),
          2, "1/1000"),
    Probe("ok", ProbeDoc(JList(<<StreamDoc(JStr(<<"30", "/", "1">>), JStr(<<"N/A">>), JNum(1080))>>)),
          2, "1/1000") }

NoProbeAnalysis == [ret |-> "nil", invoked |-> FALSE]

PrbIdle ==
  /\ prb_pc = "idle"
  /\ prb_mode = "vmaf"
  /\ prb_ref = Probe("failed", Unparseable, 0, "1/1000")
  /\ prb_dist = Probe("failed", Unparseable, 0, "1/1000")
  /\ prb_cmp = "passed"
  /\ prb_res = NoProbeAnalysis

PrbInit ==
  /\ prb_pc = "ready"
  /\ prb_mode \in AVAILABLE_MODES
  /\ prb_ref \in GoodProbes \cup BadProbes
  /\ prb_dist \in GoodProbes \cup BadProbes
  /\ prb_cmp = "passed"
  /\ prb_res = NoProbeAnalysis

\* an exception of one of the two probes leaves compare_video_properties
\* (lines 81-82); the reference is probed first
ProbeRaises == get_video_info(prb_ref).st # "ok" \/ get_video_info(prb_dist).st # "ok"

\* compare_video_properties(reference, distorted), lines 80-133
ProbeCompare ==
  /\ prb_pc = "ready"
  /\ prb_cmp' = IF ProbeRaises THEN "raise"
                ELSE IF compare_video_properties(get_video_info(prb_ref).v,
                                                 get_video_info(prb_dist).v)
                  THEN "passed" ELSE "failed"
  /\ prb_pc' = "compared"
  /\ UNCHANGED <<prb_mode, prb_ref, prb_dist, prb_res>>
  /\ UNCHANGED <<vqvars, aggvars, anavars, refvars, dscvars, namvars, covvars>>

\* run_analysis(mode, distorted, reference, output_dir): nothing in it
\* catches the exception of a probe
ProbeDispatch ==
  /\ prb_pc = "compared"
  /\ \E oc \in BackendOutcomes, wo \in WriteOutcomes, output_dir \in {None, "out"} :
       IF In(prb_mode, FR_MODES) /\ ProbeRaises
         THEN prb_res' = [ret |-> "raise", invoked |-> FALSE]
         ELSE LET ref_info == IF ProbeRaises THEN BaseInfo ELSE get_video_info(prb_ref).v
                  dist_info == IF ProbeRaises THEN BaseInfo ELSE get_video_info(prb_dist).v
                  a == run_analysis(prb_mode, fa, ra, output_dir, ref_info, dist_info,
                                    oc, wo, EmptyDisk)
              IN  prb_res' = [ret |-> a.ret, invoked |-> a.invoked]
  /\ prb_pc' = "done"
  /\ UNCHANGED <<prb_mode, prb_ref, prb_dist, prb_cmp>>
  /\ UNCHANGED <<vqvars, aggvars, anavars, refvars, dscvars, namvars, covvars>>

PrbNext == ProbeCompare \/ ProbeDispatch

(***************************************************************************)
(* metrics/utils.py get_video_files                                        *)
(***************************************************************************)
\* str.lower() on the extension of a file name
LowerToken(tok) ==
  CASE tok = "MKV" -> "mkv"
    [] tok = "MP4" -> "mp4"
    [] tok = "MOV" -> "mov"
    [] OTHER -> tok

video_extensions == {<<".", "mp4">>, <<".", "mkv">>, <<".", "mov">>}

\* the loop of get_video_files over the files of os.walk(dir), which visits
\* the directory and every directory below it
RECURSIVE VideoFilesFrom(_, _)
VideoFilesFrom(walk, i) ==
  IF i > Len(walk) THEN <<>>
  ELSE LET file == walk[i].name
           ext == [k \in DOMAIN Ext(file) |-> LowerToken(Ext(file)[k])]
       IN  IF ext \notin video_extensions THEN VideoFilesFrom(walk, i + 1)
           ELSE IF file[1] = "." THEN VideoFilesFrom(walk, i + 1)
           ELSE <<Path(walk[i].dir, file)>> \o VideoFilesFrom(walk, i + 1)

get_video_files(walk) == VideoFilesFrom(walk, 1)

\* the directory given with -d
TopDir == "in"

\* the files the tree below the directory may hold
TreePool ==
  { [dir |-> TopDir, name |-> <<"a", "1", ".", "mkv">>],
    [dir |-> TopDir, name |-> <<"b", "1", ".", "MP4">>],
    [dir |-> TopDir, name |-> <<".", "h", ".", "mkv">>],
    [dir |-> TopDir, name |-> <<"n", ".", "txt">>],
    [dir |-> TopDir, name |-> <<"mkv">>],
    [dir |-> "in/sub", name |-> <<"c", "1", ".", "mov">>] }

\* the walks of a tree: files of the pool, none twice
Trees ==
  { w \in UNION { [1..n -> TreePool] : n \in 0..MaxListed } :
      \A i \in DOMAIN w, j \in DOMAIN w : i < j => w[i] # w[j] }

DscIdle ==
  /\ dsc_pc = "idle"
  /\ dsc_tree = <<>>
  /\ dsc_out = <<>>

DscInit ==
  /\ dsc_pc = "ready"
  /\ dsc_tree \in Trees
  /\ dsc_out = <<>>

\* main, lines 252 and 259: get_video_files(args.distorted)
Discover ==
  /\ dsc_pc = "ready"
  /\ dsc_out' = get_video_files(dsc_tree)
  /\ dsc_pc' = "done"
  /\ UNCHANGED dsc_tree
  /\ UNCHANGED <<vqvars, aggvars, anavars, refvars, prbvars, namvars, covvars>>

DscNext == Discover

(***************************************************************************)
(* The name of a result file, from the dispatcher to the aggregator        *)
(***************************************************************************)
\* the distorted files named
NamedFiles ==
  {fa, fa2, fb, Path("in", <<"b", ".", "1", "c", ".", "mkv">>),
   Path("in", <<"c", "1">>)}

NoName == [path |-> NoFile, base_name |-> <<>>, metric_type |-> <<>>]

NamIdle ==
  /\ nam_pc = "idle"
  /\ nam_mode = "vmaf"
  /\ nam_distorted = fa
  /\ nam_out = NoName

NamInit ==
  /\ nam_pc = "ready"
  /\ nam_mode \in AVAILABLE_MODES
  /\ nam_distorted \in NamedFiles
  /\ nam_out = NoName

\* the runner writes get_output_filename(distorted, mode, output_dir), and
\* the walk of aggmet hands the file name to extract_name_and_metric
NameResult ==
  /\ nam_pc = "ready"
  /\ \E output_dir \in {None, "out"} :
       LET path == get_output_filename(nam_distorted, nam_mode, output_dir)
           nm == extract_name_and_metric(path.base)
       IN  nam_out' = [path |-> path, base_name |-> nm.base_name,
                       metric_type |-> nm.metric_type]
  /\ nam_pc' = "done"
  /\ UNCHANGED <<nam_mode, nam_distorted>>
  /\ UNCHANGED <<vqvars, aggvars, anavars, refvars, prbvars, dscvars, covvars>>

NamNext == NameResult

(***************************************************************************)
(* metrics/cover.py check_cover                                            *)
(***************************************************************************)
\* what exists below metrics/cover
CoverDisk(repo, venv, weights) == [repo |-> repo, venv |-> venv, weights |-> weights]

NoCover == CoverDisk(FALSE, FALSE, FALSE)

\* how git clone, create_venv and the download of the weights can end.
\* create_venv returns False when the venv module fails and raises
\* FileNotFoundError when python3.8 is not installed; its result is not
\* looked at.
CloneOutcomes == {"ok", "failed"}
VenvOutcomes == {"ok", "failed", "raise"}
DownloadOutcomes == {"ok", "failed"}

\* check_cover(rebuild): the value returned and the disk it leaves
check_cover(D, rebuild, clone, venv, download) ==
  LET D1 == IF D.repo /\ rebuild THEN NoCover ELSE D
  IN  IF D1.repo THEN [ret |-> "true", disk |-> D1]
      ELSE IF clone = "failed" THEN [ret |-> "false", disk |-> D1]
      ELSE LET D2 == CoverDisk(TRUE, FALSE, FALSE)
           IN  IF venv = "raise" THEN [ret |-> "raise", disk |-> D2]
               ELSE LET D3 == CoverDisk(TRUE, venv = "ok", FALSE)
                    IN  IF download = "failed" THEN [ret |-> "false", disk |-> D3]
                        ELSE [ret |-> "true", disk |-> CoverDisk(TRUE, D3.venv, TRUE)]

CovIdle ==
  /\ cov_disk = NoCover
  /\ cov_log = <<"idle">>

\* nothing is provisioned before the first call
CovInit ==
  /\ cov_disk = NoCover
  /\ cov_log = <<>>

\* check_model_availability for the mode cover (lines 32-35)
CheckCover ==
  /\ Len(cov_log) < MaxChecks
  /\ \E rebuild \in BOOLEAN, clone \in CloneOutcomes, venv \in VenvOutcomes,
        download \in DownloadOutcomes :
       LET r == check_cover(cov_disk, rebuild, clone, venv, download)
       IN  /\ cov_disk' = r.disk
           /\ cov_log' = Append(cov_log, [rebuild |-> rebuild, ret |-> r.ret,
                                          clone |-> clone, venv |-> venv,
                                          download |-> download])
  /\ UNCHANGED <<vqvars, aggvars, anavars, refvars, prbvars, dscvars, namvars>>

CovNext == CheckCover

\* the programs and calls not running in a specification
MoreIdle == PrbIdle /\ DscIdle /\ NamIdle /\ CovIdle

vars == <<vqvars, aggvars, anavars, refvars, morevars>>

Init == VqInit /\ AggIdle /\ AnaIdle /\ RefIdle /\ MoreIdle

Next == VqNext

Spec == Init /\ [][Next]_vars

AggSpecInit == VqIdle /\ AggInit /\ AnaIdle /\ RefIdle /\ MoreIdle

AggSpec == AggSpecInit /\ [][AggNext]_vars

AnaSpecInit == VqIdle /\ AggIdle /\ AnaInit /\ RefIdle /\ MoreIdle

AnaSpec == AnaSpecInit /\ [][AnaNext]_vars

RefSpecInit == VqIdle /\ AggIdle /\ AnaIdle /\ RefInit /\ MoreIdle

RefSpec == RefSpecInit /\ [][RefNext]_vars

\* the whole of vqcheck, aggmet, the comparison and the reference resolution
\* at rest
BaseIdle == VqIdle /\ AggIdle /\ AnaIdle /\ RefIdle

PrbSpecInit == BaseIdle /\ PrbInit /\ DscIdle /\ NamIdle /\ CovIdle

PrbSpec == PrbSpecInit /\ [][PrbNext]_vars

DscSpecInit == BaseIdle /\ PrbIdle /\ DscInit /\ NamIdle /\ CovIdle

DscSpec == DscSpecInit /\ [][DscNext]_vars

NamSpecInit == BaseIdle /\ PrbIdle /\ DscIdle /\ NamInit /\ CovIdle

NamSpec == NamSpecInit /\ [][NamNext]_vars

CovSpecInit == BaseIdle /\ PrbIdle /\ DscIdle /\ NamIdle /\ CovInit

CovSpec == CovSpecInit /\ [][CovNext]_vars

(***************************************************************************)
(* Properties of the planner and the dispatcher                            *)
(***************************************************************************)
JobPath(job) == get_output_filename(job.distorted, job.mode, job.output_dir)

\* C1: planner idempotence.  With an output directory, when every planned
\* job of the previous invocation was dispatched and succeeded, the planner
\* run again with the same arguments returns no job.
C1_PlannerIdempotent ==
  (runs > 1 /\ prev.all_ok /\ args_output # None /\ pc # "start") => jobs = <<>>

C1_Witness ==
  /\ runs > 1 /\ prev.all_ok /\ prev.njobs > 0
  /\ args_output = "out" /\ pc = "planned" /\ jobs = <<>>

\* the modes whose runner reads a reference video: the modes of FR_MODES and
\* the lpips modes (run_lpips extracts frames from the reference)
RequiresReference(m) == In(m, FR_MODES) \/ GroupOf(m) = "lpips"

\* C4: get_jobs never returns a job without a reference path for a mode
\* whose backend needs a reference video.
C4_ReferencePresent ==
  \A i \in DOMAIN jobs :
    RequiresReference(jobs[i].mode) => jobs[i].reference # NoFile

\* the full-reference modes outside the vmaf / psnr family (and not check)
NonCorrectiveFR(m) ==
  In(m, FR_MODES) /\ m # "check" /\ ~Substr("vmaf", m) /\ ~Substr("psnr", m)

\* C5: for a full-reference mode outside the vmaf / psnr family, a job whose
\* comparison failed does not reach its backend.
C5_HardFailSkips ==
  \A i \in DOMAIN log :
    (NonCorrectiveFR(mode) /\ jobs[i].reference # NoFile /\ ~log[i].pm)
      => ~log[i].invoked

\* C6: batch continuation.  Once the availability check has passed, an
\* invocation that ends without interruption has dispatched every planned
\* job, and each job came back with a result or with nil.
C6_BatchContinues ==
  (avail = "ok" /\ pc \in {"done", "crashed"})
    => /\ Len(log) = Len(jobs)
       /\ \A i \in DOMAIN log : log[i].ret \in {"res", "nil"}

\* C7: when the backend of the job just dispatched was invoked and the
\* dispatch returned nil, no file exists at the job's canonical path.
C7_NilLeavesNoFile ==
  (Len(log) > 0 /\ args_output # None)
    => LET i == Len(log)
       IN  (log[i].invoked /\ log[i].ret = "nil") => ~Exists(files, JobPath(jobs[i]))

\* C8: completion marker.  A file that exists is never changed or removed;
\* the planner omits every job whose canonical path exists; a dispatch of a
\* job whose canonical path exists returns nil without invoking the backend.
C8_Step ==
  /\ \A p \in DOMAIN files : p \in DOMAIN files' /\ files'[p] = files[p]
  /\ (pc = "start" /\ pc' = "planned")
       => \A i \in DOMAIN jobs' : ~Exists(files, JobPath(jobs'[i]))
  /\ (pc = "loop" /\ args_output # None /\ Exists(files, JobPath(jobs[idx])))
       => (log'[idx].ret = "nil" /\ ~log'[idx].invoked)

C8_CompletionMarker == [][C8_Step]_vars

\* a job is dispatched whose canonical path exists (written by an earlier
\* job of the run), and a later invocation plans on a disk holding results
C8_Witness ==
  /\ pc \in {"done", "loop"} /\ Len(log) = 2 /\ args_output = "out"
  /\ log[1].saved /\ ~log[2].invoked /\ log[2].ret = "nil"
  /\ Exists(files, JobPath(jobs[2]))

\* C9: canonical output paths are unique per (distorted file, mode): a
\* planned job shares its path neither with another planned job nor with
\* the same file under another mode.
C9_UniquePaths ==
  \A i \in DOMAIN jobs, j \in DOMAIN jobs, m2 \in AVAILABLE_MODES :
    (jobs[i].distorted # jobs[j].distorted \/ m2 # mode)
      => JobPath(jobs[i]) # get_output_filename(jobs[j].distorted, m2, args_output)

\* C10: no partial output is ever observable at a canonical path.
C10_NoPartialOutput ==
  \A p \in DOMAIN files : files[p] # "partial"

(***************************************************************************)
(* Properties of the aggregator                                            *)
(***************************************************************************)
\* the output keys of the extractor table
OutputKeys ==
  UNION { { metric_configs(metric_keys[a])[j].key :
              j \in DOMAIN metric_configs(metric_keys[a]) } :
          a \in DOMAIN metric_keys }

\* the positions <<a, j>> of the extractor table
TablePositions ==
  UNION { { <<a, j>> : j \in DOMAIN metric_configs(metric_keys[a]) } :
          a \in DOMAIN metric_keys }

\* the output key and the result of the extractor at table position p, for
\* the metric files of one base name
KeyAt(p) == metric_configs(metric_keys[p[1]])[p[2]].key

ResultAt(metrics, listing, p) ==
  extractor(metric_configs(metric_keys[p[1]])[p[2]],
            load_json_if_exists(ContentAt(listing, metrics[<<metric_keys[p[1]]>>])))

\* the table positions whose extractor yields a non-null value from the
\* metric files of one base name
Yielding(metrics, listing) ==
  { p \in TablePositions :
      /\ <<metric_keys[p[1]]>> \in DOMAIN metrics
      /\ Truthy(load_json_if_exists(
                  ContentAt(listing, metrics[<<metric_keys[p[1]]>>])))
      /\ ResultAt(metrics, listing, p).st = "ok"
      /\ ResultAt(metrics, listing, p).v # JNull }

\* table order
Before(p, q) == p[1] < q[1] \/ (p[1] = q[1] /\ p[2] < q[2])

Known(entry, k) == k \in DOMAIN entry /\ entry[k] # JNull

\* the name under which the j-th item of a list seed is kept
ItemName(items, j) ==
  IF "name" \in DOMAIN items[j].v THEN items[j].v["name"]
  ELSE JStr(<<"item_", ToString(j - 1)>>)

\* C2: never-regress merge.  An output key that holds a non-null value in a
\* consolidated entry keeps that value for the rest of the run; the entries
\* of the seed reach consolidated_data as they are; a key that was not set
\* takes the value of the first extractor in table order that yields one;
\* the output file holds the entries as they are.
C2_Step ==
  /\ agg_pc' # "start"
       => \A i \in DOMAIN consolidated_data :
            /\ i \in DOMAIN consolidated_data'
            /\ consolidated_data'[i].key = consolidated_data[i].key
            /\ \A k \in OutputKeys :
                 Known(consolidated_data[i].value, k)
                   => /\ k \in DOMAIN consolidated_data'[i].value
                      /\ consolidated_data'[i].value[k] = consolidated_data[i].value[k]
  /\ (agg_pc = "start" /\ agg_pc' = "seeded" /\ existing_json.t = "list")
       => \A j \in DOMAIN existing_json.v :
            (\A j2 \in DOMAIN existing_json.v :
               j2 > j => ItemName(existing_json.v, j2) # ItemName(existing_json.v, j))
              => \E i \in DOMAIN consolidated_data' :
                   /\ consolidated_data'[i].key = ItemName(existing_json.v, j)
                   /\ consolidated_data'[i].value = existing_json.v[j].v
  /\ (agg_pc = "loop" /\ agg_pc' # "crashed")
       => LET name == JStr(metric_files[agg_i].key)
              metrics == metric_files[agg_i].value
              i == CHOOSE n \in DOMAIN consolidated_data' :
                     consolidated_data'[n].key = name
              old == IF i \in DOMAIN consolidated_data
                       THEN consolidated_data[i].value
                       ELSE EmptyDict
              Y == Yielding(metrics, metrics_dir)
          IN  \A p \in Y :
                (/\ ~Known(old, KeyAt(p))
                 /\ \A q \in Y : KeyAt(q) = KeyAt(p) => (q = p \/ Before(p, q)))
                  => consolidated_data'[i].value[KeyAt(p)]
                       = ResultAt(metrics, metrics_dir, p).v
  /\ (agg_pc = "report" /\ agg_pc' = "written")
       => /\ Len(output_file'.v) = Len(consolidated_data)
          /\ \A i \in DOMAIN consolidated_data :
               output_file'.v[i].v = consolidated_data[i].value

C2_NeverRegress == [][C2_Step]_vars

\* a seed holds dover = 9 for a1, the dover file of a1 holds both a "dover"
\* and a "fused_score" field with other values, and the entry written still
\* holds 9
C2_Witness ==
  /\ agg_pc = "written"
  /\ existing_json = JList(<<SeedEntry(a1, "dover", JNum(9))>>)
  /\ \E i \in DOMAIN metrics_dir :
       /\ metrics_dir[i].name = a1 \o <<".", "dover", ".", "json">>
       /\ GetPath(load_json_if_exists(metrics_dir[i].content), <<"dover">>, 1)
            = Ok(JNum(1))
       /\ GetPath(load_json_if_exists(metrics_dir[i].content), <<"fused_score">>, 1)
            = Ok(JNum(2))
  /\ output_file.t = "list" /\ Len(output_file.v) = 1
  /\ output_file.v[1].v["dover"] = JNum(9)

\* C3: extraction fallback.  The failed-extraction record of a
\* (metric_key, output_key) pair holds only files on which every extractor
\* of that output key failed: a file whose secondary field is read by a
\* later extractor is not recorded.
C3_FallbackRecordsNoFailure ==
  \A n \in DOMAIN errors.failed_extract :
    LET rec == errors.failed_extract[n]
        config == metric_configs(rec.metric_key)
        data == load_json_if_exists(ContentAt(metrics_dir, rec.file))
    IN  \A j \in DOMAIN config :
          config[j].key = rec.output_key => extractor(config[j], data).st # "ok"

\* C11: a malformed metric file never aborts aggregation.  The loop over the
\* metric files never ends main: whatever a file holds, the run goes on to
\* the next base name and to the write of the output file.
C11_MalformedNeverAborts ==
  ~(agg_pc = "crashed" /\ agg_i \in DOMAIN metric_files)

\* C12: a job of a mode that reads no reference video carries no reference
\* path: a reference given together with a no-reference mode is dropped.
C12_NoReferenceForNR ==
  \A i \in DOMAIN jobs :
    ~RequiresReference(jobs[i].mode) => jobs[i].reference = NoFile

(***************************************************************************)
(* Claims about the comparison and the correction                          *)
(***************************************************************************)
\* both probes gave a result
BothProbed == ana_ref.ok /\ ana_dist.ok

SameResolution ==
  ana_ref.width = ana_dist.width /\ ana_ref.height = ana_dist.height

\* C13: a frame count mismatch is a hard fail without a correction: the job
\* of a full-reference mode whose reference and distorted video differ in
\* frame count is skipped, and its backend is never invoked.
C13_FrameCountSkips ==
  (/\ ana_pc = "done"
   /\ In(ana_mode, FR_MODES)
   /\ BothProbed
   /\ ana_ref.frame_count # ana_dist.frame_count)
    => ~ana_res.invoked

\* the pair differs in nothing but the soft properties: frame rate, pixel
\* format, color range
OnlySoftDifferences ==
  /\ BothProbed
  /\ SameResolution
  /\ ana_ref.frame_count = ana_dist.frame_count
  /\ Timebase(ana_ref) = Timebase(ana_dist)
  /\ ana_ref # ana_dist

\* C16: soft conditions never block: a pair that differs only in frame rate,
\* pixel format or color range passes the comparison of tools/vqcheck.py and
\* that of the standalone vqcheck.py, and a color range difference is
\* reported only when neither side is "unknown".
C16_SoftNeverBlocks ==
  (ana_pc \in {"compared", "done"} /\ OnlySoftDifferences)
    => /\ ana_cmp.passed
       /\ ana_cmp.standalone
       /\ (\E i \in DOMAIN ana_cmp.messages :
             ana_cmp.messages[i] = <<"WARNING", "Color range mismatch">>)
            => (ana_ref.color_range # "unknown" /\ ana_dist.color_range # "unknown")

\* C17: a pair that differs in both resolution and frame count does not pass
\* the comparison, and the message list holds the resolution mismatch and
\* the frame count mismatch as ERROR entries, whatever warnings come with
\* them.
C17_BothHardFailsListed ==
  (/\ ana_pc \in {"compared", "done"}
   /\ BothProbed
   /\ ~SameResolution
   /\ ana_ref.frame_count # ana_dist.frame_count)
    => /\ ~ana_cmp.passed
       /\ \E i \in DOMAIN ana_cmp.messages :
            ana_cmp.messages[i] = <<"ERROR", "Resolution mismatch">>
       /\ \E i \in DOMAIN ana_cmp.messages :
            ana_cmp.messages[i] = <<"ERROR", "Frame count mismatch">>

\* the comparison of a pair differing in resolution, frame count, frame rate,
\* pixel format and color range has been made and failed
C17_Witness ==
  /\ ana_pc = "compared"
  /\ ana_ref = BaseInfo
  /\ ana_dist = Info(1280, 720, 3, 25000, "yuv422p", "pc", "1/1000")
  /\ ~ana_cmp.passed
  /\ Len(ana_cmp.messages) = 5

\* C18: for a vmaf or psnr job whose comparison failed, the scale is the
\* reference's (width, height) exactly when the resolutions differ, the
\* forced frame rate is the reference's fps exactly when the timebases
\* differ, and each of the two that was computed is in the filter graph the
\* backend is run with.
C18_CorrectionApplied ==
  (/\ ana_pc = "done"
   /\ GroupOf(ana_mode) = "ffmpeg"
   /\ BothProbed
   /\ ~ana_cmp.passed
   /\ ana_res.invoked)
    => /\ ana_res.scale = (IF SameResolution THEN NoScale
                           ELSE <<ana_ref.width, ana_ref.height>>)
       /\ ana_res.fps = (IF Timebase(ana_ref) = Timebase(ana_dist) THEN NoFps
                         ELSE ana_ref.fps)
       /\ ana_res.lavfi.distorted_scale = ana_res.scale
       /\ ana_res.lavfi.distorted_fps = ana_res.fps
       /\ ana_res.lavfi.reference_fps = ana_res.fps

(***************************************************************************)
(* Claims about the reference resolution                                   *)
(***************************************************************************)
\* the length of the longest case-insensitive common prefix of the base name
\* of the distorted file and of the i-th reference, extensions stripped
CommonPrefix(i) ==
  LET t == Stem(ref_distorted.base)
      r == Stem(ref_files[i].base)
      agree == {n \in 0..Len(t) :
                  /\ n <= Len(r)
                  /\ \A k \in 1..n : Lower(t[k]) = Lower(r[k])}
  IN  CHOOSE n \in agree : \A k \in agree : k <= n

\* the reference the rule names for the distorted file
ExpectedReference ==
  IF Len(ref_files) = 1 THEN ref_files[1]
  ELSE LET longest == CHOOSE i \in DOMAIN ref_files :
                        /\ \A j \in DOMAIN ref_files : CommonPrefix(j) <= CommonPrefix(i)
                        /\ \A j \in DOMAIN ref_files :
                             j < i => CommonPrefix(j) < CommonPrefix(i)
       IN  IF CommonPrefix(longest) = 0 THEN NoFile ELSE ref_files[longest]

\* C14: with one reference file every distorted file uses it; with several,
\* a distorted file gets the reference whose base name shares the longest
\* case-insensitive prefix with its own, the first of them on a tie and none
\* when every prefix is empty; a repeated call gives the same reference.
C14_ReferenceResolution ==
  (ref_pc = "resolved" /\ Len(ref_files) >= 1)
    => \A k \in DOMAIN ref_out : ref_out[k] = ExpectedReference

\* two calls resolved in/a1.mkv against two references that tie on the
\* prefix "a1" (one of them in upper case) and took the first
C14_Witness ==
  /\ ref_pc = "resolved"
  /\ ref_distorted = fa
  /\ Len(ref_files) >= 2
  /\ ref_files[1] = ra
  /\ ref_files[2] = Video("ref", <<"A", "1", "x">>)
  /\ ref_files[Len(ref_files)] = Video("ref", <<"a", "1">>)
  /\ ref_out = <<ref_files[2], ref_files[2]>>

(***************************************************************************)
(* Claims about re-aggregation and persistence                             *)
(***************************************************************************)
\* the run before wrote its entry list, and this run was seeded with it
SeededWithOwnOutput == agg_runs > 1 /\ existing_json.t = "list"

\* the write of a run seeded with the output of the run before, over the
\* same metric files, writes that output again
C15_Step ==
  (SeededWithOwnOutput /\ agg_pc = "report" /\ agg_pc' = "written")
    => output_file' = existing_json

\* C15: round trip: the consolidated dataset written by one run and loaded
\* as the seed of the next run, with no new metric files, gives the same
\* entries with the same fields and values in the same order.
C15_RoundTrip == [][C15_Step]_vars

\* a second run wrote the two entries it was seeded with, one of them taken
\* from metric files
C15_Witness ==
  /\ agg_runs = 2
  /\ agg_pc = "written"
  /\ existing_json.t = "list"
  /\ Len(existing_json.v) = 2
  /\ metric_files # <<>>
  /\ output_file = existing_json

\* one step of a run: the availability check is made once, from the planned
\* state; a job is dispatched only after the check returned true; after a
\* check that failed no job of the run is dispatched
C19_Step ==
  /\ (avail' # avail /\ runs' = runs)
       => (avail = "unchecked" /\ pc = "planned" /\ pc' # "planned")
  /\ (log' # log /\ runs' = runs) => (avail = "ok" /\ avail' = "ok")
  /\ avail \in {"unavailable", "raise"}
       => (log = <<>> /\ (runs' = runs => log' = <<>>))

C20_WriteFailureSurfaced ==
  \A i \in DOMAIN log :
    (jobs[i].output_dir # None /\ log[i].invoked /\ log[i].ret = "res")
      => log[i].saved

(***************************************************************************)
(* Claims about the consolidated file and the entries                      *)
(***************************************************************************)
\* the step that ends the report leaves at the output path the complete new
\* dataset or what the path held before
C21_Step ==
  agg_pc = "report"
    => (output_file' = output_file \/ output_file' = OutputList(consolidated_data))

\* C21: the final write of the consolidated dataset is all-or-nothing:
\* whether the run completes or fails during the write, the output path
\* holds the complete new dataset or what it held before, never a partly
\* written file.
C21_WriteAllOrNothing == [][C21_Step]_vars

(***************************************************************************)
(* Claims about the media property inspector                               *)
(***************************************************************************)
\* C22: the inspector never raises past its caller: when ffprobe fails or
\* its output is malformed for the reference or the distorted file of a
\* full-reference job, the comparison reports passed=false and the job is
\* skipped without a backend invocation.
C22_ProbeFailureIsHardFail ==
  (/\ prb_pc = "done"
   /\ In(prb_mode, FR_MODES)
   /\ (prb_ref \in BadProbes \/ prb_dist \in BadProbes))
    => /\ prb_cmp = "failed"
       /\ prb_res.ret = "nil"
       /\ ~prb_res.invoked

\* the entries of the seed of this run, in the order of the seed file, with
\* the keys they are known by
SeedPairs ==
  IF existing_json.t = "list"
    THEN [i \in DOMAIN existing_json.v |->
            [key |-> IF "name" \in DOMAIN existing_json.v[i].v
                       THEN existing_json.v[i].v["name"]
                       ELSE JStr(<<"item_", ToString(i - 1)>>),
             value |-> existing_json.v[i].v]]
  ELSE IF existing_json.t = "object" THEN existing_json.v
  ELSE <<>>

SeedNames == {SeedPairs[i].key : i \in DOMAIN SeedPairs}

\* the base name of the i-th file of the walk, <<>> for a file that is not a
\* metric file
WalkedName(i) ==
  IF EndsWithJson(metrics_dir[i].name)
    THEN extract_name_and_metric(metrics_dir[i].name).base_name
  ELSE <<>>

\* the positions of the walk at which a base name the seed does not know is
\* met for the first time
Discoveries ==
  {i \in DOMAIN metrics_dir :
     /\ WalkedName(i) # <<>>
     /\ JStr(WalkedName(i)) \notin SeedNames
     /\ \A j \in 1..(i - 1) : WalkedName(j) # WalkedName(i)}

\* the output entry continues the seed entry: it has the fields of the seed
\* entry, and the name if the seed entry has one
Continues(out, seed) ==
  /\ out.t = "dict"
  /\ DOMAIN seed \subseteq DOMAIN out.v
  /\ "name" \in DOMAIN seed => out.v["name"] = seed["name"]

C24_Step ==
  agg_pc = "loop"
    => \A i \in DOMAIN consolidated_data :
         /\ i \in DOMAIN consolidated_data'
         /\ consolidated_data'[i].key = consolidated_data[i].key

\* the written list has the seed entries first, in the order of the seed,
\* and then the discovered base names in the order the walk met them
C24_Order ==
  agg_pc = "written"
    => /\ \A i \in DOMAIN SeedPairs :
            /\ i \in DOMAIN output_file.v
            /\ Continues(output_file.v[i], SeedPairs[i].value)
       /\ \A i \in Discoveries :
            LET k == Len(SeedPairs) + Cardinality({j \in Discoveries : j <= i})
            IN  /\ k \in DOMAIN output_file.v
                /\ output_file.v[k].v["name"] = JStr(WalkedName(i))

Embeddings ==
  {f \in [DOMAIN jobs -> DOMAIN distorted_files] :
     \A i \in DOMAIN jobs, j \in DOMAIN jobs : i < j => f[i] < f[j]}

\* C25: the job list is a sub-sequence of the distorted-file list: the jobs
\* keep the order of their distorted files, every job has the mode of the
\* run, and no two jobs of a run have the same distorted file.
C25_JobsAreSubsequence ==
  /\ jobs # <<>> =>
       \E f \in Embeddings : \A i \in DOMAIN jobs : jobs[i].distorted = distorted_files[f[i]]
  /\ \A i \in DOMAIN jobs : jobs[i].mode = mode
  /\ \A i \in DOMAIN jobs, j \in DOMAIN jobs :
       i # j => jobs[i].distorted # jobs[j].distorted

\* two jobs were planned for two distorted files, in the order of the files
C25_Witness ==
  /\ pc = "planned"
  /\ Len(distorted_files) = 2
  /\ Len(jobs) = 2
  /\ jobs[1].distorted = distorted_files[1]
  /\ jobs[2].distorted = distorted_files[2]

\* C26: discovery for a directory returns exactly the non-hidden files
\* directly inside the directory, without going into its subdirectories,
\* whose extension is one of the recognized video extensions.
C26_DiscoveryTopLevelOnly ==
  dsc_pc = "done"
    => Range(dsc_out) =
         { Path(e.dir, e.name) :
             e \in { x \in Range(dsc_tree) :
                       /\ x.dir = TopDir
                       /\ x.name[1] # "."
                       /\ Len(x.name) >= 2
                       /\ x.name[Len(x.name) - 1] = "."
                       /\ x.name[Len(x.name)] \in
                            {"mp4", "mkv", "mov", "MP4", "MKV", "MOV"} } }

\* C27: without an output directory the result file of a successful job is
\* beside the distorted file under the canonical name, the path the planner
\* tests when it skips a job.
C27_ResultBesideDistorted ==
  \A i \in DOMAIN log :
    (jobs[i].output_dir = None /\ log[i].ret = "res")
      => Exists(files, get_output_filename(jobs[i].distorted, mode, None))

\* the metric keys of the extractor table, as parts of a file name
TableKeys == {<<metric_keys[k]>> : k \in DOMAIN metric_keys}

\* C28: every result file the dispatcher can write is consumable by the
\* aggregator: the metric key in its name is a key of the extractor table,
\* and extract_name_and_metric recovers the base name of the distorted file.
C28_ResultFilesConsumable ==
  (nam_pc = "done" /\ nam_mode # "check")
    => /\ nam_out.metric_type \in TableKeys
       /\ nam_out.base_name = Stem(nam_distorted.base)

(***************************************************************************)
(* Claims about the provisioning of COVER                                  *)
(***************************************************************************)
\* C30: check_cover returns True only when the backend is fully
\* provisioned: the repository, its virtual environment and the pretrained
\* weights exist after every call that returned True, also after an
\* earlier call failed part-way.
C30_AvailableMeansProvisioned ==
  (Len(cov_log) > 0 /\ cov_log[Len(cov_log)].ret = "true")
    => (cov_disk.repo /\ cov_disk.venv /\ cov_disk.weights)

(***************************************************************************)
(* Claims about the fields of seed entries                                 *)
(***************************************************************************)
\* processing the metric files of a base name leaves every field that
\* holds a non-null value as it is
C29_Step ==
  agg_pc = "loop"
    => \A i \in DOMAIN consolidated_data :
         /\ i \in DOMAIN consolidated_data'
         /\ \A k \in DOMAIN consolidated_data[i].value :
              consolidated_data[i].value[k] # JNull
                => /\ k \in DOMAIN consolidated_data'[i].value
                   /\ consolidated_data'[i].value[k] = consolidated_data[i].value[k]

\* C29: aggregation leaves every non-null field of a seed entry unchanged,
\* whatever metric files are found for its base name: the output keys of the
\* extractors and also the metadata fields copied from a meta file.
C29_SeedFieldsKept == [][C29_Step]_vars

====
